---- MODULE Spec2Model ----
(***************************************************************************)
(* FinancialMarketWatchdog: the LOF realtime monitor                       *)
(* (src/monitors/lof_monitor.py), its column helpers                       *)
(* (src/utils/data_parser.py) and the JSON state store                     *)
(* (src/storage/state_manager.py).                                         *)
(*                                                                         *)
(* Numbers.  A pandas float is modelled as an exact rational <<n, d>>      *)
(* with d > 0, and a missing value (NaN) as the empty tuple.  Comparisons  *)
(* are made by cross-multiplication, so no rounding is introduced by the   *)
(* model; binary floating-point rounding of the code is not modelled.      *)
(***************************************************************************)
EXTENDS Integers, Sequences, FiniteSets, TLC

VARIABLES
    pc,            \* position of run_monitor: "idle" | "fetched"
    df,            \* the snapshot returned by the data source, when fetched
    state,         \* StateManager.state: [limit: code -> status, speed: ...]
    state_file,    \* content of the JSON state file (last successful _save)
    sent,          \* messages handed to notifier.send_text in the latest run
    speed_history, \* LOFRealtimeMonitor.speed_history: code -> deque
    now_ts,        \* time.time() at the latest run
    last,          \* history: what the latest run did for every code
    streak,        \* history: run of equal limit statuses, per code
    samples,       \* history: every sample ever appended, per code
    calendar,      \* TradingCalendar: [a_share_calendar, last_update]
    clock,         \* datetime.now(), in parts of a day since StartDate
    threads,       \* scheduler worker threads: position and locals of each
    trace,         \* history: what the latest call outside the trackers did
    futures_rollover \* the rows of the futures_rollover table

vars == <<pc, df, state, state_file, sent, speed_history, now_ts, last,
          streak, samples, calendar, clock, threads, trace,
          futures_rollover>>

\* The variables the two trackers leave alone
outside == <<calendar, clock, threads, trace>>

-----------------------------------------------------------------------------
(* Floats *)

NaN == <<>>

Flt(n, d) == <<n, d>>

notna(x) == x # NaN

\* x >= y on non-missing values; any comparison with NaN is false (IEEE)
GE(x, y) == notna(x) /\ notna(y) /\ x[1] * y[2] >= y[1] * x[2]

LE(x, y) == notna(x) /\ notna(y) /\ x[1] * y[2] <= y[1] * x[2]

GT(x, y) == notna(x) /\ notna(y) /\ x[1] * y[2] > y[1] * x[2]

Neg(x) == IF notna(x) THEN Flt(-x[1], x[2]) ELSE NaN

-----------------------------------------------------------------------------
(* Configuration (LOFRealtimeMonitor.__init__ defaults) *)

\* limit_pct = 9.9, in tenths of a percent
LimitPctTenths == 99

limit_pct == Flt(LimitPctTenths, 10)

\* The watched instrument of the end-to-end scenario
Codes == {"600519"}

limit_codes == <<"600519">>

speed_codes == <<"600519">>

\* speed_window_minutes = 10.0
SpeedWindowMinutes == 10

\* window_seconds = self.speed_window_minutes * 60.0
window_seconds == SpeedWindowMinutes * 60

\* speed_threshold_pct = 2.0, in tenths of a percent
SpeedThresholdTenths == 20

speed_threshold_pct == Flt(SpeedThresholdTenths, 10)

-----------------------------------------------------------------------------
(* Snapshot cells and columns *)

\* Semantic roles of get_column_map that the monitor reads
Roles == {"pct", "price", "prev_close", "limit_up", "limit_down"}

\* A raw cell: a number, or the placeholder "-" of the data source
Cell(n, d) == [txt |-> "num", n |-> n, d |-> d]

Dash == [txt |-> "-", n |-> 0, d |-> 1]

Placeholders == {"-", "--", "nan", "None", ""}

series_to_float(cell) ==
    IF cell.txt \in Placeholders THEN NaN ELSE Flt(cell.n, cell.d)

-----------------------------------------------------------------------------
(* Snapshots: what ak.fund_lof_spot_em() can return after prepare_lof_df *)

PctCells ==
    {Dash} \cup {Cell(n, 10) : n \in {-(LimitPctTenths + 2), -LimitPctTenths,
                                      -(LimitPctTenths - 1), 0,
                                      LimitPctTenths - 1, LimitPctTenths,
                                      LimitPctTenths + 2}}

PriceCells == {Dash} \cup {Cell(n, 1) : n \in {9, 10, 11}}

PrevCloseCells == {Dash} \cup {Cell(n, 1) : n \in {0, 10}}

LimitUpCells == {Dash, Cell(11, 1)}

LimitDownCells == {Dash, Cell(9, 1)}

CellsOf(role) ==
    CASE role = "pct" -> PctCells
      [] role = "price" -> PriceCells
      [] role = "prev_close" -> PrevCloseCells
      [] role = "limit_up" -> LimitUpCells
      [] role = "limit_down" -> LimitDownCells

\* The cells a row can hold under role x when the mapped columns are cs; a
\* role without a column is never read (its field is a filler)
CellsUnder(cs, x) == IF x \in cs THEN CellsOf(x) ELSE {Dash}

RowsOver(cs) ==
    [pct : CellsUnder(cs, "pct"), price : CellsUnder(cs, "price"),
     prev_close : CellsUnder(cs, "prev_close"),
     limit_up : CellsUnder(cs, "limit_up"),
     limit_down : CellsUnder(cs, "limit_down")]

\* A prepared snapshot: the mapped columns (get_column_map) and one row per
\* code present (keyed by the canonical _code)
Snapshots ==
    UNION {[cols : {cs}, rows : UNION {[present -> RowsOver(cs)] :
                                          present \in SUBSET Codes}] :
           cs \in SUBSET Roles}

NoDf == [cols |-> {}, rows |-> [c \in {} |-> Dash]]

\* The rows of a snapshot in the order of the data source; a snapshot that
\* does not record it has at most one row
RowOrder(snap) ==
    IF "order" \in DOMAIN snap THEN snap.order
    ELSE CHOOSE s \in [1..Cardinality(DOMAIN snap.rows) -> DOMAIN snap.rows] :
             \A c \in DOMAIN snap.rows : \E i \in DOMAIN s : s[i] = c

\* df[df["_code"].isin(codes)]: the boolean mask keeps the row order
isin(snap, codes) ==
    LET kept == {x \in DOMAIN snap.rows : \E i \in DOMAIN codes : codes[i] = x}
        rows == [c \in kept |-> snap.rows[c]]
    IN  IF "order" \in DOMAIN snap
        THEN [cols |-> snap.cols, rows |-> rows,
              order |-> SelectSeq(snap.order, LAMBDA c : c \in kept)]
        ELSE [cols |-> snap.cols, rows |-> rows]

\* order = {code: idx for idx, code in enumerate(codes)}: the last index wins
OrderIndex(codes, c) ==
    CHOOSE i \in DOMAIN codes :
        codes[i] = c /\ \A j \in DOMAIN codes : j > i => codes[j] # c

\* One step of the sort: x goes before the first element with a larger key
RECURSIVE InsertByKey(_, _, _)
InsertByKey(x, sorted, key) ==
    IF sorted = <<>> THEN <<x>>
    ELSE IF key[x] < key[Head(sorted)] THEN <<x>> \o sorted
    ELSE <<Head(sorted)>> \o InsertByKey(x, Tail(sorted), key)

\* df.sort_values("_order"), on the codes of the rows
RECURSIVE sort_values(_, _)
sort_values(rows, key) ==
    IF rows = <<>> THEN <<>>
    ELSE InsertByKey(rows[Len(rows)],
                     sort_values(SubSeq(rows, 1, Len(rows) - 1), key), key)

\* Variant: the rows are left in the order of the data source
order_by_codes_Unsorted(subset, codes) == RowOrder(subset)

\* order_by_codes(df, codes): the codes of the rows, in the order in which
\* the loop will visit them
order_by_codes(subset, codes) ==
    IF codes = <<>> \/ DOMAIN subset.rows = {} THEN RowOrder(subset)
    ELSE sort_values(RowOrder(subset),
                     [c \in DOMAIN subset.rows |-> OrderIndex(codes, c)])

Statuses == {"NORMAL", "LIMIT_UP", "LIMIT_DOWN"}

LimitStatuses == {"LIMIT_UP", "LIMIT_DOWN"}

\* A pandas Series over the rows, or None
NoSeries == [some |-> FALSE, s |-> [c \in {} |-> NaN]]

Series(f) == [some |-> TRUE, s |-> f]

\* (price - safe_prev) / safe_prev * 100.0, with prev.where(prev != 0)
PctOfPrev(price, prev) ==
    IF notna(price) /\ notna(prev) /\ prev[1] # 0
    THEN Flt((price[1] * prev[2] - prev[1] * price[2]) * 100,
             prev[1] * price[2])
    ELSE NaN

compute_pct_series(snap) ==
    IF "pct" \in snap.cols
    THEN Series([c \in DOMAIN snap.rows |->
                    series_to_float(snap.rows[c]["pct"])])
    ELSE IF "price" \in snap.cols /\ "prev_close" \in snap.cols
    THEN Series([c \in DOMAIN snap.rows |->
                    PctOfPrev(series_to_float(snap.rows[c]["price"]),
                              series_to_float(snap.rows[c]["prev_close"]))])
    ELSE NoSeries

\* Variant: exclusive comparisons
StatusOfPct_Strict(pct) ==
    IF notna(pct) /\ ~GE(pct, Neg(limit_pct)) THEN "LIMIT_DOWN"
    ELSE IF GT(pct, limit_pct) THEN "LIMIT_UP"
    ELSE "NORMAL"

\* status[pct_series >= limit_pct] = "LIMIT_UP";
\* status[pct_series <= -limit_pct] = "LIMIT_DOWN" (assigned last, so it wins)
StatusOfPct(pct) ==
    IF LE(pct, Neg(limit_pct)) THEN "LIMIT_DOWN"
    ELSE IF GE(pct, limit_pct) THEN "LIMIT_UP"
    ELSE "NORMAL"

\* status[price >= up] = "LIMIT_UP"; status[price <= down] = "LIMIT_DOWN"
StatusOfBounds(snap, c) ==
    LET price == series_to_float(snap.rows[c]["price"])
        isUp == "limit_up" \in snap.cols
                /\ GE(price, series_to_float(snap.rows[c]["limit_up"]))
        isDown == "limit_down" \in snap.cols
                  /\ LE(price, series_to_float(snap.rows[c]["limit_down"]))
    IN  IF isDown THEN "LIMIT_DOWN"
        ELSE IF isUp THEN "LIMIT_UP"
        ELSE "NORMAL"

\* Returns (status, pct_series); status None is some = FALSE
compute_limit_status(snap) ==
    LET pct_series == compute_pct_series(snap)
    IN  IF pct_series.some
        THEN [status |-> Series([c \in DOMAIN snap.rows |->
                                    StatusOfPct(pct_series.s[c])]),
              pct |-> pct_series]
        ELSE IF "price" \in snap.cols
                /\ ("limit_up" \in snap.cols \/ "limit_down" \in snap.cols)
        THEN [status |-> Series([c \in DOMAIN snap.rows |->
                                    StatusOfBounds(snap, c)]),
              pct |-> NoSeries]
        ELSE [status |-> NoSeries, pct |-> NoSeries]

-----------------------------------------------------------------------------
(* LOFRealtimeMonitor._process_limit_alerts *)

EmptyMap == [c \in {} |-> "NORMAL"]

\* dict.get(code, "NORMAL")
GetOr(map, c, default) == IF c \in DOMAIN map THEN map[c] ELSE default

\* map[c] = v
Put(map, c, v) == [x \in DOMAIN map \cup {c} |-> IF x = c THEN v ELSE map[x]]

HitMsg(cur_status, code) == [kind |-> "hit", code |-> code, status |-> cur_status]

OpenMsg(last_status, code) ==
    [kind |-> "open", code |-> code, status |-> last_status]

\* price is None, for the row of code in subset
PriceOf(subset, code) ==
    IF "price" \in subset.cols
    THEN series_to_float(subset.rows[code]["price"])
    ELSE NaN

PctOf(cs, code) == IF cs.pct.some THEN cs.pct.s[code] ELSE NaN

\* The two continue statements of the loop
LimitSkipped(subset, cs, code) ==
    \/ cs.pct.some /\ ~notna(PctOf(cs, code))
    \/ ~cs.pct.some /\ ~notna(PriceOf(subset, code))

\* Variant: the comparison with the persisted status is dropped
LimitMessages_NoDedup(cur_status, last_status, code) ==
    IF cur_status \in LimitStatuses
    THEN <<HitMsg(cur_status, code)>>
    ELSE IF last_status \in LimitStatuses /\ cur_status = "NORMAL"
    THEN <<OpenMsg(last_status, code)>>
    ELSE <<>>

\* Variant: a hit is reported only when leaving NORMAL
LimitMessages_FlipSilent(cur_status, last_status, code) ==
    IF cur_status # last_status
    THEN IF cur_status \in LimitStatuses /\ last_status = "NORMAL"
         THEN <<HitMsg(cur_status, code)>>
         ELSE IF last_status \in LimitStatuses /\ cur_status = "NORMAL"
         THEN <<OpenMsg(last_status, code)>>
         ELSE <<>>
    ELSE <<>>

\* The messages of one loop iteration that does not continue
LimitMessages(cur_status, last_status, code) ==
    IF cur_status # last_status
    THEN IF cur_status \in LimitStatuses
         THEN <<HitMsg(cur_status, code)>>
         ELSE IF last_status \in LimitStatuses /\ cur_status = "NORMAL"
         THEN <<OpenMsg(last_status, code)>>
         ELSE <<>>
    ELSE <<>>

\* Variant: the map is written only when a message was sent
LimitIteration_UpdateOnAlert(subset, cs, code, acc) ==
    LET cur_status == cs.status.s[code]
        last_status == GetOr(acc.limit, code, "NORMAL")
        msgs == LimitMessages(cur_status, last_status, code)
    IN  IF LimitSkipped(subset, cs, code)
        THEN [acc EXCEPT !.info = Put(acc.info, code,
                  [processed |-> FALSE, prev |-> last_status,
                   cur |-> last_status, via |-> "none"])]
        ELSE [limit |-> IF msgs # <<>> THEN Put(acc.limit, code, cur_status)
                        ELSE acc.limit,
              msgs |-> acc.msgs \o msgs,
              info |-> Put(acc.info, code,
                  [processed |-> TRUE, prev |-> last_status,
                   cur |-> cur_status,
                   via |-> IF cs.pct.some THEN "pct" ELSE "bounds"])]

\* One iteration of the loop over subset["_code"]: acc = [limit, msgs, info]
LimitIteration(subset, cs, code, acc) ==
    LET cur_status == cs.status.s[code]
        last_status == GetOr(acc.limit, code, "NORMAL")
    IN  IF LimitSkipped(subset, cs, code)
        THEN [acc EXCEPT !.info = Put(acc.info, code,
                  [processed |-> FALSE, prev |-> last_status,
                   cur |-> last_status, via |-> "none"])]
        ELSE [limit |-> Put(acc.limit, code, cur_status),
              msgs |-> acc.msgs \o LimitMessages(cur_status, last_status, code),
              info |-> Put(acc.info, code,
                  [processed |-> TRUE, prev |-> last_status,
                   cur |-> cur_status,
                   via |-> IF cs.pct.some THEN "pct" ELSE "bounds"])]

RECURSIVE LimitLoop(_, _, _, _)
LimitLoop(subset, cs, order, acc) ==
    IF order = <<>> THEN acc
    ELSE LimitLoop(subset, cs, Tail(order),
                   LimitIteration(subset, cs, Head(order), acc))

\* What a run did per code: whether the row was processed (not skipped), the
\* status read from the map, the status computed, and the derivation used
NoInfo ==
    [c \in {} |-> [processed |-> FALSE, prev |-> "NORMAL", cur |-> "NORMAL",
                   via |-> "none"]]

\* _process_limit_alerts of a monitor whose limit_codes is codes, on the
\* prepared snapshot snap with state["limit"] = limit: the new map, the
\* messages sent, whether state_manager.set was reached, the codes the loop
\* visited in order, and the codes reported missing
limit_alerts(codes, snap, limit) ==
    LET subset == isin(snap, codes)
        cs == compute_limit_status(subset)
        missing == {codes[i] : i \in DOMAIN codes} \ DOMAIN subset.rows
        none == [limit |-> limit, msgs |-> <<>>, info |-> NoInfo, set |-> FALSE,
                 visited |-> <<>>, missing |-> missing]
    IN  IF codes = <<>> THEN [none EXCEPT !.missing = {}]
        ELSE IF DOMAIN subset.rows = {} THEN none
        ELSE IF ~cs.status.some THEN none
        ELSE LET order == order_by_codes(subset, codes)
                 r == LimitLoop(subset, cs, order,
                                [limit |-> limit, msgs |-> <<>>, info |-> NoInfo])
             IN  [limit |-> r.limit, msgs |-> r.msgs, info |-> r.info,
                  set |-> TRUE, visited |-> order, missing |-> missing]

\* The method of the monitor of the tracker specifications
process_limit_alerts(snap, limit) == limit_alerts(limit_codes, snap, limit)

-----------------------------------------------------------------------------
(* LOFRealtimeMonitor._update_speed_history and _process_speed_alerts *)

SpeedStatuses == {"NORMAL", "FAST_UP", "FAST_DOWN"}

FastStatuses == {"FAST_UP", "FAST_DOWN"}

Sample(ts, price) == [ts |-> ts, price |-> price]

\* Variant: a sample exactly window seconds old is evicted too
RECURSIVE Evict_Inclusive(_, _, _)
Evict_Inclusive(dq, now, window) ==
    IF dq # <<>> /\ now - Head(dq).ts >= window
    THEN Evict_Inclusive(Tail(dq), now, window)
    ELSE dq

\* Variant: nothing is evicted
Evict_Never(dq, now, window) == dq

\* while dq and now_ts - dq[0][0] > window_seconds: dq.popleft()
RECURSIVE Evict(_, _, _)
Evict(dq, now, window) ==
    IF dq # <<>> /\ now - Head(dq).ts > window
    THEN Evict(Tail(dq), now, window)
    ELSE dq

\* (price - base_price) / base_price * 100.0
ChangePct(price, base_price) ==
    Flt((price[1] * base_price[2] - base_price[1] * price[2]) * 100,
        base_price[1] * price[2])

\* Variant: one retained sample is enough
update_speed_history_One(dq0, now, price, window) ==
    LET dq == Evict(Append(dq0, Sample(now, price)), now, window)
    IN  [dq |-> dq,
         change |-> IF Len(dq) < 1 THEN NaN
                    ELSE IF Head(dq).price[1] = 0 THEN NaN
                    ELSE ChangePct(price, Head(dq).price)]

\* The deque after the call, and the value returned (None is NaN)
update_speed_history(dq0, now, price, window) ==
    LET dq == Evict(Append(dq0, Sample(now, price)), now, window)
    IN  [dq |-> dq,
         change |-> IF Len(dq) < 2 THEN NaN
                    ELSE IF Head(dq).price[1] = 0 THEN NaN
                    ELSE ChangePct(price, Head(dq).price)]

SpeedStatusOf(change_pct) ==
    IF GE(change_pct, speed_threshold_pct) THEN "FAST_UP"
    ELSE IF LE(change_pct, Neg(speed_threshold_pct)) THEN "FAST_DOWN"
    ELSE "NORMAL"

SpeedMsg(cur_status, code) ==
    [kind |-> "speed", code |-> code, status |-> cur_status]

\* Variant: the comparison with the persisted status is dropped
SpeedMessages_NoDedup(cur_status, last_status, code) ==
    IF cur_status \in FastStatuses
    THEN <<SpeedMsg(cur_status, code)>>
    ELSE <<>>

SpeedMessages(cur_status, last_status, code) ==
    IF cur_status # last_status /\ cur_status \in FastStatuses
    THEN <<SpeedMsg(cur_status, code)>>
    ELSE <<>>

\* setdefault(code, deque())
DequeOf(hist, code) == IF code \in DOMAIN hist THEN hist[code] ELSE <<>>

\* Variant: a price that is not positive enters the window
SpeedIteration_AnyPrice(subset, now, code, acc) ==
    LET price == series_to_float(subset.rows[code]["price"])
        last_status == GetOr(acc.speed, code, "NORMAL")
        skip == [valid |-> FALSE, processed |-> FALSE, prev |-> last_status,
                 cur |-> last_status]
    IN  IF ~notna(price)
        THEN [acc EXCEPT !.info = Put(acc.info, code, skip)]
        ELSE LET u == update_speed_history(DequeOf(acc.hist, code), now,
                                           price, window_seconds)
                 cur_status == SpeedStatusOf(u.change)
             IN  IF ~notna(u.change)
                 THEN [acc EXCEPT !.hist = Put(acc.hist, code, u.dq),
                                  !.info = Put(acc.info, code,
                                      [skip EXCEPT !.valid = TRUE])]
                 ELSE [speed |-> Put(acc.speed, code, cur_status),
                       hist |-> Put(acc.hist, code, u.dq),
                       msgs |-> acc.msgs
                                \o SpeedMessages(cur_status, last_status, code),
                       info |-> Put(acc.info, code,
                           [valid |-> TRUE, processed |-> TRUE,
                            prev |-> last_status, cur |-> cur_status])]

\* One iteration of the loop: acc = [speed, hist, msgs, info]
SpeedIteration(subset, now, code, acc) ==
    LET price == series_to_float(subset.rows[code]["price"])
        last_status == GetOr(acc.speed, code, "NORMAL")
        skip == [valid |-> FALSE, processed |-> FALSE, prev |-> last_status,
                 cur |-> last_status]
    IN  IF ~notna(price) \/ ~GT(price, Flt(0, 1))
        THEN [acc EXCEPT !.info = Put(acc.info, code, skip)]
        ELSE LET u == update_speed_history(DequeOf(acc.hist, code), now,
                                           price, window_seconds)
                 cur_status == SpeedStatusOf(u.change)
             IN  IF ~notna(u.change)
                 THEN [acc EXCEPT !.hist = Put(acc.hist, code, u.dq),
                                  !.info = Put(acc.info, code,
                                      [skip EXCEPT !.valid = TRUE])]
                 ELSE [speed |-> Put(acc.speed, code, cur_status),
                       hist |-> Put(acc.hist, code, u.dq),
                       msgs |-> acc.msgs
                                \o SpeedMessages(cur_status, last_status, code),
                       info |-> Put(acc.info, code,
                           [valid |-> TRUE, processed |-> TRUE,
                            prev |-> last_status, cur |-> cur_status])]

RECURSIVE SpeedLoop(_, _, _, _)
SpeedLoop(subset, now, order, acc) ==
    IF order = <<>> THEN acc
    ELSE SpeedLoop(subset, now, Tail(order),
                   SpeedIteration(subset, now, Head(order), acc))

NoSpeedInfo ==
    [c \in {} |-> [valid |-> FALSE, processed |-> FALSE, prev |-> "NORMAL",
                   cur |-> "NORMAL"]]

NoHistory == [c \in {} |-> <<>>]

\* The whole method: the new map and deques, the messages sent, and whether
\* state_manager.set was reached
process_speed_alerts(snap, now, speed, hist) ==
    LET subset == isin(snap, speed_codes)
        none == [speed |-> speed, hist |-> hist, msgs |-> <<>>,
                 info |-> NoSpeedInfo, set |-> FALSE]
    IN  IF speed_codes = <<>> THEN none
        ELSE IF DOMAIN subset.rows = {} THEN none
        ELSE IF "price" \notin subset.cols THEN none
        ELSE LET r == SpeedLoop(subset, now,
                                order_by_codes(subset, speed_codes),
                                [speed |-> speed, hist |-> hist,
                                 msgs |-> <<>>, info |-> NoSpeedInfo])
             IN  [speed |-> r.speed, hist |-> r.hist, msgs |-> r.msgs,
                  info |-> r.info, set |-> TRUE]

-----------------------------------------------------------------------------
(* Bounds *)

\* Length up to which a run of equal statuses is counted
MaxStreak == 5

\* Seconds between two runs are 1, 2 or 3 ticks
TickSeconds == 300

\* Runs are explored while time.time() is at most MaxTicks ticks
MaxTicks == 6

-----------------------------------------------------------------------------
(* The state store: StateManager *)

\* The maps a state file can hold for one key
StoredMaps(statuses) ==
    UNION {[present -> statuses] : present \in SUBSET Codes}

\* StateManager.set(key, value): self.state[key] = value, then _save(),
\* which swallows a failed write (ok = FALSE).  The trackers below are
\* explored with writes that succeed.
StateSet(key, value, ok) ==
    /\ state' = [state EXCEPT ![key] = value]
    /\ state_file' = IF ok THEN state' ELSE state_file

-----------------------------------------------------------------------------
(* History of the limit tracker *)

\* st: the status of the current run of processed polls; from: the status
\* persisted before it; len, hits: its polls and hit messages so far;
\* ended: the length of the run it replaced, when that run started from
\* NORMAL (0 otherwise)
NoStreak ==
    [st |-> "NONE", from |-> "NONE", len |-> 0, hits |-> 0, ended |-> 0]

Min(a, b) == IF a < b THEN a ELSE b

\* The messages of msgs that concern code
MsgsFor(msgs, code) == SelectSeq(msgs, LAMBDA m : m.code = code)

HitsFor(msgs, code) ==
    Len(SelectSeq(msgs, LAMBDA m : m.code = code /\ m.kind = "hit"))

StreakAfter(old, info, msgs, code) ==
    IF code \notin DOMAIN info \/ ~info[code].processed THEN old
    ELSE IF old.st = info[code].cur
    THEN [old EXCEPT !.len = Min(old.len + 1, MaxStreak),
                     !.hits = Min(old.hits + HitsFor(msgs, code), 2),
                     !.ended = 0]
    ELSE [st |-> info[code].cur, from |-> info[code].prev, len |-> 1,
          hits |-> HitsFor(msgs, code),
          ended |-> IF old.from = "NORMAL" THEN old.len ELSE 0]

\* No calendar, no pool thread and no other call takes part
OutsideIdle ==
    /\ calendar = <<>>
    /\ clock = 0
    /\ threads = <<>>
    /\ trace = <<>>

-----------------------------------------------------------------------------
(* The limit tracker: run_monitor with limit_codes only *)

InitLimit ==
    /\ futures_rollover = {}
    /\ pc = "idle"
    /\ df = NoDf
    /\ \E m \in StoredMaps(Statuses) : state = [limit |-> m, speed |-> EmptyMap]
    /\ state_file = state
    /\ sent = <<>>
    /\ speed_history = NoHistory
    /\ now_ts = 0
    /\ last = NoInfo
    /\ streak = [c \in Codes |-> NoStreak]
    /\ samples = NoHistory
    /\ OutsideIdle

\* df = ak.fund_lof_spot_em(); prepared = prepare_lof_df(df)
FetchLimit ==
    /\ pc = "idle"
    /\ df' \in Snapshots
    /\ pc' = "fetched"
    /\ UNCHANGED <<futures_rollover,
                   state, state_file, sent, speed_history, now_ts, last,
                   streak, samples, outside>>

\* self._process_limit_alerts(prepared, cols, timestamp)
RunLimit ==
    /\ pc = "fetched"
    /\ LET r == process_limit_alerts(df, state.limit)
       IN  /\ IF r.set
              THEN StateSet("limit", r.limit, TRUE)
              ELSE UNCHANGED <<state, state_file>>
           /\ sent' = r.msgs
           /\ last' = r.info
           /\ streak' = [c \in Codes |->
                            StreakAfter(streak[c], r.info, r.msgs, c)]
    /\ pc' = "idle"
    /\ df' = NoDf
    /\ UNCHANGED <<futures_rollover, speed_history, now_ts, samples, outside>>

NextLimit == FetchLimit \/ RunLimit

SpecLimit == InitLimit /\ [][NextLimit]_vars

-----------------------------------------------------------------------------
(* The speed tracker: run_monitor with speed_codes only *)

SpeedPriceCells == {Dash} \cup {Cell(n, 1) : n \in {0, 98, 100, 102}}

SpeedRowsOver(cs) ==
    [pct : {Dash}, price : IF "price" \in cs THEN SpeedPriceCells ELSE {Dash},
     prev_close : {Dash}, limit_up : {Dash}, limit_down : {Dash}]

\* The speed tracker reads the price column alone
SpeedSnapshots ==
    UNION {[cols : {cs}, rows : UNION {[present -> SpeedRowsOver(cs)] :
                                          present \in SUBSET Codes}] :
           cs \in SUBSET {"price"}}

InitSpeed ==
    /\ futures_rollover = {}
    /\ pc = "idle"
    /\ df = NoDf
    /\ \E m \in StoredMaps(SpeedStatuses) :
           state = [limit |-> EmptyMap, speed |-> m]
    /\ state_file = state
    /\ sent = <<>>
    /\ speed_history = NoHistory
    /\ now_ts = 0
    /\ last = NoSpeedInfo
    /\ streak = [c \in Codes |-> NoStreak]
    /\ samples = NoHistory
    /\ OutsideIdle

\* now_ts = time.time(); df = ak.fund_lof_spot_em()
FetchSpeed ==
    /\ pc = "idle"
    /\ \E k \in 1..3 :
          /\ now_ts + k * TickSeconds <= MaxTicks * TickSeconds
          /\ now_ts' = now_ts + k * TickSeconds
    /\ df' \in SpeedSnapshots
    /\ pc' = "fetched"
    /\ UNCHANGED <<futures_rollover,
                   state, state_file, sent, speed_history, last, streak,
                   samples, outside>>

\* self._process_speed_alerts(prepared, cols, timestamp, now_ts)
RunSpeed ==
    /\ pc = "fetched"
    /\ LET r == process_speed_alerts(df, now_ts, state.speed, speed_history)
       IN  /\ IF r.set
              THEN StateSet("speed", r.speed, TRUE)
              ELSE UNCHANGED <<state, state_file>>
           /\ speed_history' = r.hist
           /\ sent' = r.msgs
           /\ last' = r.info
           /\ samples' =
                 [c \in DOMAIN samples \cup
                        {x \in DOMAIN r.info : r.info[x].valid} |->
                     IF c \in DOMAIN r.info /\ r.info[c].valid
                     THEN Append(DequeOf(samples, c),
                                 Sample(now_ts,
                                        series_to_float(df.rows[c]["price"])))
                     ELSE samples[c]]
    /\ pc' = "idle"
    /\ df' = NoDf
    /\ UNCHANGED <<futures_rollover, now_ts, streak, outside>>

NextSpeed == FetchSpeed \/ RunSpeed

SpecSpeed == InitSpeed /\ [][NextSpeed]_vars

-----------------------------------------------------------------------------
(* Properties of the limit tracker (SpecLimit) *)

\* A run of the tracker: the step from the fetched snapshot to idle
Ran == pc = "fetched" /\ pc' = "idle"

\* C1: a processed poll whose computed status is a limit status equal to the
\* persisted one sends nothing for the code; a run of polls reporting the
\* same limit status that started from NORMAL has sent exactly one hit
\* message; a processed poll reporting NORMAL after a limit status sends
\* exactly one open-board message.
C1_LimitDedup ==
    \A c \in Codes :
        /\ (c \in DOMAIN last /\ last[c].processed
            /\ last[c].cur \in LimitStatuses /\ last[c].cur = last[c].prev)
           => MsgsFor(sent, c) = <<>>
        /\ (streak[c].st \in LimitStatuses /\ streak[c].from = "NORMAL")
           => streak[c].hits = 1
        /\ (c \in DOMAIN last /\ last[c].processed
            /\ last[c].cur = "NORMAL" /\ last[c].prev \in LimitStatuses)
           => MsgsFor(sent, c) = <<OpenMsg(last[c].prev, c)>>

\* MaxStreak polls reported LIMIT_UP from NORMAL, then one reported NORMAL
C1_Witness ==
    \E c \in Codes :
        /\ c \in DOMAIN last /\ last[c].processed
        /\ last[c].prev = "LIMIT_UP" /\ last[c].cur = "NORMAL"
        /\ streak[c].ended = MaxStreak
        /\ sent = <<OpenMsg("LIMIT_UP", c)>>

\* C2: a processed poll sends exactly one message for the code when the
\* computed status differs from the persisted one (a hit message on entering
\* a limit status, also on a flip between the two; an open-board message on
\* returning to NORMAL), and none when the status is unchanged.
C2_OneMessagePerTransition ==
    \A c \in DOMAIN last :
        last[c].processed =>
            MsgsFor(sent, c) =
                IF last[c].cur = last[c].prev THEN <<>>
                ELSE IF last[c].cur \in LimitStatuses
                THEN <<HitMsg(last[c].cur, c)>>
                ELSE <<OpenMsg(last[c].prev, c)>>

\* A direct flip from LIMIT_UP to LIMIT_DOWN
C2_Witness ==
    \E c \in DOMAIN last :
        /\ last[c].processed
        /\ last[c].prev = "LIMIT_UP" /\ last[c].cur = "LIMIT_DOWN"
        /\ sent = <<HitMsg("LIMIT_DOWN", c)>>

\* C3: after a poll that processed a code, the status the store holds for it
\* under key "limit" is the status computed in the poll, whether or not a
\* message was sent.
C3_StatusPersisted ==
    \A c \in DOMAIN last :
        last[c].processed =>
            /\ c \in DOMAIN state.limit
            /\ state.limit[c] = last[c].cur

\* The first processed poll of a code, NORMAL, with no message sent
C3_Witness ==
    \E c \in DOMAIN last :
        /\ last[c].processed /\ sent = <<>>
        /\ last[c].cur = "NORMAL" /\ streak[c].len = 1
        /\ streak[c].ended = 0
        /\ state.limit[c] = "NORMAL" /\ state_file.limit[c] = "NORMAL"
\* The message expected for code when its status goes from old to new
ExpectedMsgs(old, new, code) ==
    IF new = old THEN <<>>
    ELSE IF new \in LimitStatuses THEN <<HitMsg(new, code)>>
    ELSE <<OpenMsg(old, code)>>

\* The cell of the watched row of code under role x is a number
Usable(snap, code, x) == x \in snap.cols /\ snap.rows[code][x].txt = "num"

\* The watched rows of the fetched snapshot
WatchedRows == DOMAIN isin(df, limit_codes).rows

\* C10: in every run, a watched row with a numeric percent-change cell p is
\* given LIMIT_UP iff p >= limit_pct, LIMIT_DOWN iff p <= -limit_pct, NORMAL
\* otherwise; the status is stored and the message of the transition from
\* the persisted status is the only one sent (with limit 9.9: 10.1 from
\* NORMAL sends one hit message, 10.1 again sends nothing, 0.0 next sends one
\* open-board message).
C10_PctClassification ==
    [][Ran => \A c \in WatchedRows :
          Usable(df, c, "pct") =>
              LET p == df.rows[c]["pct"]
                  up == p.n * 10 >= LimitPctTenths * p.d
                  down == p.n * 10 <= (-LimitPctTenths) * p.d
                  expected == IF up THEN "LIMIT_UP"
                              ELSE IF down THEN "LIMIT_DOWN" ELSE "NORMAL"
              IN  /\ ~(up /\ down)
                  /\ c \in DOMAIN state'.limit
                  /\ state'.limit[c] = expected
                  /\ MsgsFor(sent', c) =
                        ExpectedMsgs(GetOr(state.limit, c, "NORMAL"),
                                     expected, c)]_vars

\* The scenario's end: LIMIT_UP from NORMAL by percent change, held for at
\* least two polls, then NORMAL by percent change with one open-board message
C10_Witness ==
    \E c \in DOMAIN last :
        /\ last[c].processed /\ last[c].via = "pct"
        /\ last[c].prev = "LIMIT_UP" /\ last[c].cur = "NORMAL"
        /\ streak[c].ended >= 2
        /\ sent = <<OpenMsg("LIMIT_UP", c)>>

\* The status the price bounds of a row give
BoundsStatus(snap, code) ==
    LET price == snap.rows[code]["price"]
        up == snap.rows[code]["limit_up"]
        down == snap.rows[code]["limit_down"]
    IN  IF Usable(snap, code, "limit_down") /\ price.n * down.d <= down.n * price.d
        THEN "LIMIT_DOWN"
        ELSE IF Usable(snap, code, "limit_up")
                /\ price.n * up.d >= up.n * price.d
        THEN "LIMIT_UP"
        ELSE "NORMAL"

\* The row of code has a percent-change value: the cell of the pct column
\* or, without that column, the value computed from price and previous close
HasPct(snap, code) ==
    \/ Usable(snap, code, "pct")
    \/ /\ "pct" \notin snap.cols
       /\ Usable(snap, code, "price") /\ Usable(snap, code, "prev_close")
       /\ snap.rows[code]["prev_close"].n # 0

HasBounds(snap, code) ==
    /\ Usable(snap, code, "price")
    /\ Usable(snap, code, "limit_up") \/ Usable(snap, code, "limit_down")

\* C8: in every run, a watched row without a percent-change value but with
\* a price and a limit-up or limit-down price is not skipped: its status is
\* derived from the bounds and stored, and the transition's message is sent.
C8_FallbackPerInstrument ==
    [][Ran => \A c \in WatchedRows :
          (~HasPct(df, c) /\ HasBounds(df, c)) =>
              /\ GetOr(state'.limit, c, "NORMAL") = BoundsStatus(df, c)
              /\ MsgsFor(sent', c) =
                    ExpectedMsgs(GetOr(state.limit, c, "NORMAL"),
                                 BoundsStatus(df, c), c)]_vars

\* C9: in every run, a watched row with neither a percent-change value nor
\* a price together with a limit-up or limit-down price is skipped: nothing
\* is sent for it and its persisted status is unchanged.
C9_InsufficientDataSkipped ==
    [][Ran => \A c \in WatchedRows :
          (~HasPct(df, c) /\ ~HasBounds(df, c)) =>
              /\ MsgsFor(sent', c) = <<>>
              /\ GetOr(state'.limit, c, "NORMAL")
                    = GetOr(state.limit, c, "NORMAL")]_vars
-----------------------------------------------------------------------------
(* Properties of the speed tracker (SpecSpeed) *)

\* The samples of code ever appended that are at most window_seconds older
\* than now_ts
Within(code) ==
    SelectSeq(DequeOf(samples, code),
              LAMBDA x : now_ts - x.ts <= window_seconds)

\* C4: a poll sends a message for a code exactly when it classified the code
\* FAST_UP or FAST_DOWN and that differs from the persisted status (also on
\* a flip between the two); nothing is sent while a fast status is sustained
\* or when the status returns to NORMAL.
C4_SpeedTransitions ==
    /\ \A c \in DOMAIN last :
          MsgsFor(sent, c) =
              IF last[c].processed /\ last[c].cur \in FastStatuses
                 /\ last[c].cur # last[c].prev
              THEN <<SpeedMsg(last[c].cur, c)>>
              ELSE <<>>
    /\ \A c \in Codes \ DOMAIN last : MsgsFor(sent, c) = <<>>

\* A direct flip from FAST_UP to FAST_DOWN
C4_Witness ==
    \E c \in DOMAIN last :
        /\ last[c].processed
        /\ last[c].prev = "FAST_UP" /\ last[c].cur = "FAST_DOWN"
        /\ sent = <<SpeedMsg("FAST_DOWN", c)>>

\* C5: after a call of _update_speed_history the window of the code holds
\* exactly the samples ever appended that are at most window_seconds old
\* (one exactly window_seconds old included), and its newest sample is the
\* one just appended.
C5_SlidingWindow ==
    \A c \in DOMAIN last :
        (pc = "idle" /\ last[c].valid) =>
            LET dq == DequeOf(speed_history, c)
            IN  /\ dq # <<>>
                /\ dq[Len(dq)] = samples[c][Len(samples[c])]
                /\ dq[Len(dq)].ts = now_ts
                /\ \A i \in DOMAIN dq : now_ts - dq[i].ts <= window_seconds
                /\ dq = Within(c)

\* The oldest retained sample is exactly window_seconds old and an older one
\* was evicted
C5_Witness ==
    \E c \in DOMAIN last :
        /\ pc = "idle" /\ last[c].valid
        /\ Head(speed_history[c]).ts = now_ts - window_seconds
        /\ Len(samples[c]) > Len(speed_history[c])

\* C6: a run after which the window of a code holds fewer than 2 samples
\* sends nothing for the code and leaves its persisted speed status as it was.
C6_InsufficientHistory ==
    [][Ran => \A c \in Codes :
          Len(DequeOf(speed_history', c)) < 2 =>
              /\ MsgsFor(sent', c) = <<>>
              /\ (c \in DOMAIN state'.speed) = (c \in DOMAIN state.speed)
              /\ c \in DOMAIN state.speed
                    => state'.speed[c] = state.speed[c]
              /\ c \in DOMAIN last' => ~last'[c].processed]_vars

\* A valid price was appended, every earlier sample was evicted, and the
\* persisted FAST_UP status stayed
C6_Witness ==
    \E c \in DOMAIN last :
        /\ pc = "idle" /\ last[c].valid /\ ~last[c].processed
        /\ Len(speed_history[c]) = 1 /\ Len(samples[c]) >= 2
        /\ c \in DOMAIN state.speed /\ state.speed[c] = "FAST_UP"
        /\ sent = <<>>

\* The status of the change from base_price to price, in exact arithmetic
ExpectedSpeedStatus(price, base_price) ==
    LET diff == price[1] * base_price[2] - base_price[1] * price[2]
        unit == base_price[1] * price[2]
    IN  IF diff * 1000 >= SpeedThresholdTenths * unit THEN "FAST_UP"
        ELSE IF diff * 1000 <= (-SpeedThresholdTenths) * unit THEN "FAST_DOWN"
        ELSE "NORMAL"

\* C7: the status a poll classifies is the status of the change from the
\* oldest sample at most window_seconds old to the latest price; samples
\* older than that play no part.
C7_OldestRetainedBase ==
    \A c \in DOMAIN last :
        (pc = "idle" /\ last[c].processed) =>
            /\ Len(Within(c)) >= 2
            /\ last[c].cur =
                  ExpectedSpeedStatus(samples[c][Len(samples[c])].price,
                                      Head(Within(c)).price)
            /\ state.speed[c] = last[c].cur

\* A poll classified NORMAL although the change from an evicted sample
\* would have been fast
C7_Witness ==
    \E c \in DOMAIN last :
        /\ pc = "idle" /\ last[c].processed /\ last[c].cur = "NORMAL"
        /\ now_ts - samples[c][1].ts > window_seconds
        /\ ExpectedSpeedStatus(samples[c][Len(samples[c])].price,
                               samples[c][1].price) = "FAST_UP"

-----------------------------------------------------------------------------
(* Overlapping invocations of run_monitor on one LOFRealtimeMonitor *)

\* Invocations explored per behaviour
MaxRuns == 3

\* Threads of ThreadPoolExecutor(10) that run the job at the same time
Workers == {1, 2}

IdleThread ==
    [pos |-> "idle", df |-> NoDf, now |-> 0, cur_status |-> "NORMAL",
     last_status |-> "NORMAL"]

\* Snapshots with the pct and price columns and the watched code present
OverlapSnapshots ==
    {s \in Snapshots :
        /\ s.cols = {"pct", "price"}
        /\ DOMAIN s.rows = Codes
        /\ \A c \in Codes :
              /\ s.rows[c]["price"] = Cell(10, 1)
              /\ s.rows[c]["pct"] \in
                    {Dash, Cell(0, 10), Cell(LimitPctTenths + 2, 10),
                     Cell(-(LimitPctTenths + 2), 10)}}

TheCode == CHOOSE c \in Codes : TRUE

NoTrace == [overlapped |-> FALSE, prev |-> <<>>, dup |-> FALSE]

\* Variant: the status computed is not stored
AssignedMap_Dropped(limit_state, code, cur_status) == limit_state

\* limit_state[code] = cur_status
AssignedMap(limit_state, code, cur_status) == Put(limit_state, code, cur_status)

InitOverlap ==
    /\ futures_rollover = {}
    /\ pc = "idle"
    /\ df = NoDf
    /\ \E m \in StoredMaps(Statuses) : state = [limit |-> m, speed |-> EmptyMap]
    /\ state_file = state
    /\ sent = <<>>
    /\ speed_history = NoHistory
    /\ now_ts = 0
    /\ last = NoInfo
    /\ streak = [c \in Codes |-> NoStreak]
    /\ samples = NoHistory
    /\ calendar = <<>>
    /\ clock = 0
    /\ threads = [t \in Workers |-> IdleThread]
    /\ trace = NoTrace

\* now_ts = time.time(); df = ak.fund_lof_spot_em(); prepare_lof_df;
\* _process_limit_alerts up to limit_state = self.state_manager.get("limit")
BeginRun(t) ==
    /\ threads[t].pos = "idle"
    /\ now_ts < MaxRuns * TickSeconds
    /\ now_ts' = now_ts + TickSeconds
    /\ \E s \in OverlapSnapshots :
          threads' = [threads EXCEPT ![t] =
              [pos |-> "loop", df |-> s, now |-> now_ts',
               cur_status |-> compute_limit_status(isin(s, limit_codes))
                                  .status.s[TheCode],
               last_status |-> "NORMAL"]]
    /\ trace' = [trace EXCEPT !.overlapped =
                    @ \/ \E u \in Workers \ {t} : threads[u].pos # "idle"]
    /\ UNCHANGED <<futures_rollover,
                   pc, df, state, state_file, sent, speed_history, last,
                   streak, samples, calendar, clock>>

\* last_status = limit_state.get(code, "NORMAL"), and the two continue tests
ReadStatus(t) ==
    /\ threads[t].pos = "loop"
    /\ LET th == threads[t]
           subset == isin(th.df, limit_codes)
           cs == compute_limit_status(subset)
       IN  threads' = [threads EXCEPT ![t] =
               [th EXCEPT !.last_status = GetOr(state.limit, TheCode, "NORMAL"),
                          !.pos = IF LimitSkipped(subset, cs, TheCode)
                                  THEN "set" ELSE "compare"]]
    /\ UNCHANGED <<futures_rollover,
                   pc, df, state, state_file, sent, speed_history, now_ts,
                   last, streak, samples, calendar, clock, trace>>

\* if cur_status != last_status: ... self.notifier.send_text(content)
SendAlert(t) ==
    /\ threads[t].pos = "compare"
    /\ LET th == threads[t]
           msgs == LimitMessages(th.cur_status, th.last_status, TheCode)
           m == [msg |-> msgs[1], read |-> th.last_status]
       IN  /\ sent' = msgs
           /\ trace' = IF msgs = <<>> THEN trace
                       ELSE [trace EXCEPT !.prev = <<m>>,
                                          !.dup = @ \/ trace.prev = <<m>>]
    /\ threads' = [threads EXCEPT ![t].pos = "assign"]
    /\ UNCHANGED <<futures_rollover,
                   pc, df, state, state_file, speed_history, now_ts, last,
                   streak, samples, calendar, clock>>

\* limit_state[code] = cur_status, on the dict held by the StateManager
AssignStatus(t) ==
    /\ threads[t].pos = "assign"
    /\ state' = [state EXCEPT !.limit =
                    AssignedMap(state.limit, TheCode, threads[t].cur_status)]
    /\ threads' = [threads EXCEPT ![t].pos = "set"]
    /\ UNCHANGED <<futures_rollover,
                   pc, df, state_file, sent, speed_history, now_ts, last,
                   streak, samples, calendar, clock, trace>>

\* self.state_manager.set("limit", limit_state)
SetLimit(t) ==
    /\ threads[t].pos = "set"
    /\ StateSet("limit", state.limit, TRUE)
    /\ threads' = [threads EXCEPT ![t].pos = "speed"]
    /\ UNCHANGED <<futures_rollover,
                   pc, df, sent, speed_history, now_ts, last, streak, samples,
                   calendar, clock, trace>>

\* self._process_speed_alerts(prepared, cols, timestamp, now_ts)
SpeedPart(t) ==
    /\ threads[t].pos = "speed"
    /\ LET r == process_speed_alerts(threads[t].df, threads[t].now,
                                     state.speed, speed_history)
       IN  /\ IF r.set
              THEN StateSet("speed", r.speed, TRUE)
              ELSE UNCHANGED <<state, state_file>>
           /\ speed_history' = r.hist
    /\ threads' = [threads EXCEPT ![t] = IdleThread]
    /\ UNCHANGED <<futures_rollover,
                   pc, df, sent, now_ts, last, streak, samples, calendar,
                   clock, trace>>

NextOverlap ==
    \E t \in Workers :
        \/ BeginRun(t)
        \/ ReadStatus(t)
        \/ SendAlert(t)
        \/ AssignStatus(t)
        \/ SetLimit(t)
        \/ SpeedPart(t)

SpecOverlap == InitOverlap /\ [][NextOverlap]_vars

\* C11: the read-compare-send-write on the status map is unprotected.  The
\* same alert is sent twice in a row, from the same status read, only in a
\* behaviour where one invocation of run_monitor began while another was
\* running; serialized invocations never repeat an alert.  (That overlapping
\* invocations do repeat one is the state C11_Witness.)
C11_SerializedNoRepeat == trace.dup => trace.overlapped

\* Two invocations began, one while the other ran; both read NORMAL, both
\* sent the LIMIT_UP alert of the one code, and both appended to its window
C11_Witness ==
    /\ trace.dup
    /\ trace.overlapped
    /\ now_ts = 2 * TickSeconds
    /\ trace.prev = <<[msg |-> HitMsg("LIMIT_UP", TheCode), read |-> "NORMAL"]>>
    /\ \A t \in Workers : threads[t].pos = "idle"
    /\ Len(DequeOf(speed_history, TheCode)) = 2

-----------------------------------------------------------------------------
(* One StateManager shared by two jobs on different scheduler threads *)

\* Calls of StateManager.set explored per behaviour
MaxSets == 3

\* main(): the LOF monitor and the RSS fetcher are built on one StateManager
JobKey == [t \in Workers |-> IF t = 1 THEN "limit" ELSE "rss_history"]

Articles == <<"a1", "a2">>

\* The values a job passes to set(key, value)
ValuesOf(key) ==
    IF key = "limit" THEN StoredMaps(Statuses)
    ELSE {SubSeq(Articles, 1, n) : n \in 0..Len(Articles)}

RECURSIVE MapTokens(_, _)
MapTokens(m, order) ==
    IF order = <<>> THEN <<>>
    ELSE (IF Head(order) \in DOMAIN m
          THEN <<<<"limit", Head(order), m[Head(order)]>>>> ELSE <<>>)
         \o MapTokens(m, Tail(order))

\* json.dump(self.state, f, ...): the text written, one token per entry of
\* each value, in the key order of the dict
Serialize(st) ==
    MapTokens(st.limit, limit_codes)
    \o [i \in 1..Len(st.rss_history) |-> <<"rss_history", st.rss_history[i]>>]

\* A flush of the text buf at offset 0 of a file that holds content
Overwrite(content, buf) ==
    IF Len(buf) >= Len(content) THEN buf
    ELSE buf \o SubSeq(content, Len(buf) + 1, Len(content))

IdleWriter == [pos |-> "idle", buf |-> <<>>]

InitStore ==
    /\ futures_rollover = {}
    /\ pc = "idle"
    /\ df = NoDf
    /\ \E m \in ValuesOf("limit"), h \in ValuesOf("rss_history") :
          state = [limit |-> m, speed |-> EmptyMap, rss_history |-> h]
    /\ state_file = Serialize(state)
    /\ sent = <<>>
    /\ speed_history = NoHistory
    /\ now_ts = 0
    /\ last = NoInfo
    /\ streak = [c \in Codes |-> NoStreak]
    /\ samples = NoHistory
    /\ calendar = <<>>
    /\ clock = 0
    /\ threads = [t \in Workers |-> IdleWriter]
    /\ trace = [sets |-> 0]

\* set(key, value): self.state[key] = value
CallSet(t) ==
    /\ threads[t].pos = "idle"
    /\ trace.sets < MaxSets
    /\ \E v \in ValuesOf(JobKey[t]) : state' = [state EXCEPT ![JobKey[t]] = v]
    /\ threads' = [threads EXCEPT ![t].pos = "save"]
    /\ trace' = [trace EXCEPT !.sets = @ + 1]
    /\ UNCHANGED <<futures_rollover,
                   pc, df, state_file, sent, speed_history, now_ts, last,
                   streak, samples, calendar, clock>>

\* _save: open(self.state_file, "w") truncates the file
OpenFile(t) ==
    /\ threads[t].pos = "save"
    /\ state_file' = <<>>
    /\ threads' = [threads EXCEPT ![t].pos = "opened"]
    /\ UNCHANGED <<futures_rollover,
                   pc, df, state, sent, speed_history, now_ts, last, streak,
                   samples, calendar, clock, trace>>

\* _save: json.dump(self.state, f) fills the buffer of the file object
DumpState(t) ==
    /\ threads[t].pos = "opened"
    /\ threads' = [threads EXCEPT ![t] =
                      [pos |-> "dumped", buf |-> Serialize(state)]]
    /\ UNCHANGED <<futures_rollover,
                   pc, df, state, state_file, sent, speed_history, now_ts,
                   last, streak, samples, calendar, clock, trace>>

\* _save: leaving the with block closes the file, which flushes the buffer
CloseFile(t) ==
    /\ threads[t].pos = "dumped"
    /\ state_file' = Overwrite(state_file, threads[t].buf)
    /\ threads' = [threads EXCEPT ![t] = IdleWriter]
    /\ UNCHANGED <<futures_rollover,
                   pc, df, state, sent, speed_history, now_ts, last, streak,
                   samples, calendar, clock, trace>>

NextStore ==
    \E t \in Workers :
        \/ CallSet(t)
        \/ OpenFile(t)
        \/ DumpState(t)
        \/ CloseFile(t)

SpecStore == InitStore /\ [][NextStore]_vars

\* C12: the store serializes the writes of two jobs that call set on
\* different threads: the writes of the state file do not interleave, so
\* once every call has returned the file holds the text of the whole
\* in-memory state, with both updates.
C12_WritesSerialized ==
    (\A t \in Workers : threads[t].pos = "idle")
        => state_file = Serialize(state)

-----------------------------------------------------------------------------
(* The limit tracker across process restarts *)

\* A missing or unreadable state file loads as {}
EmptyState == [k \in {} |-> EmptyMap]

\* Variant: the default replaces the value the key already has
ensure_key_Overwrite(st, key, default) == Put(st, key, default)

\* StateManager.ensure_key: the state after the call
ensure_key(st, key, default) ==
    IF key \notin DOMAIN st THEN Put(st, key, default) ELSE st

\* StateManager(state_file) on a file that holds the dict file, then
\* LOFRealtimeMonitor.__init__
Constructed(file) ==
    ensure_key(ensure_key(file, "limit", EmptyMap), "speed", EmptyMap)

\* The limit tracker reads the pct column here
RestartSnapshots == {s \in Snapshots : s.cols = {"pct"}}

NoRestart ==
    [restarted |-> FALSE, first |-> FALSE, synced |-> FALSE,
     was |-> [c \in Codes |-> "NORMAL"]]

InitRestart ==
    /\ futures_rollover = {}
    /\ pc = "idle"
    /\ df = NoDf
    /\ \E file \in {EmptyState} \cup
                   {[limit |-> m, speed |-> EmptyMap] :
                       m \in StoredMaps(Statuses)} :
          state = Constructed(file)
    /\ state_file = state
    /\ sent = <<>>
    /\ speed_history = NoHistory
    /\ now_ts = 0
    /\ last = NoInfo
    /\ streak = [c \in Codes |-> NoStreak]
    /\ samples = NoHistory
    /\ calendar = <<>>
    /\ clock = 0
    /\ threads = <<>>
    /\ trace = NoRestart

FetchRestart ==
    /\ pc = "idle"
    /\ df' \in RestartSnapshots
    /\ pc' = "fetched"
    /\ UNCHANGED <<futures_rollover,
                   state, state_file, sent, speed_history, now_ts, last,
                   streak, samples, outside>>

\* _process_limit_alerts; the write of the state file succeeds or fails
RunRestart ==
    /\ pc = "fetched"
    /\ LET r == process_limit_alerts(df, state.limit)
       IN  /\ IF r.set
              THEN \E ok \in BOOLEAN : StateSet("limit", r.limit, ok)
              ELSE UNCHANGED <<state, state_file>>
           /\ sent' = r.msgs
           /\ last' = r.info
    /\ trace' = [trace EXCEPT !.first = trace.restarted, !.restarted = FALSE]
    /\ pc' = "idle"
    /\ df' = NoDf
    /\ UNCHANGED <<futures_rollover,
                   speed_history, now_ts, streak, samples, calendar, clock,
                   threads>>

\* The process exits and starts again: main() builds a new StateManager on
\* the state file and a new LOFRealtimeMonitor
Restart ==
    /\ pc = "idle"
    /\ state' = Constructed(state_file)
    /\ state_file' = state'
    /\ speed_history' = NoHistory
    /\ trace' = [restarted |-> TRUE, first |-> FALSE,
                 synced |-> state_file = state,
                 was |-> [c \in Codes |-> GetOr(state.limit, c, "NORMAL")]]
    /\ UNCHANGED <<futures_rollover,
                   pc, df, sent, now_ts, last, streak, samples, calendar,
                   clock, threads>>

NextRestart == FetchRestart \/ RunRestart \/ Restart

SpecRestart == InitRestart /\ [][NextRestart]_vars

\* C13: status survives restarts.  When the state file held the in-memory
\* state at the restart (the writes succeeded), a code whose status was
\* LIMIT_UP or LIMIT_DOWN before the restart and is computed with the same
\* status by the first poll after it gets no message in that poll.
C13_StatusSurvivesRestart ==
    \A c \in Codes :
        (/\ trace.first
         /\ trace.synced
         /\ trace.was[c] \in LimitStatuses
         /\ c \in DOMAIN last
         /\ last[c].cur = trace.was[c])
            => MsgsFor(sent, c) = <<>>

\* The first poll after a restart processed a code that is still LIMIT_UP,
\* and sent nothing
C13_Witness ==
    /\ trace.first
    /\ trace.synced
    /\ \E c \in Codes :
          /\ trace.was[c] = "LIMIT_UP"
          /\ c \in DOMAIN last
          /\ last[c].processed
          /\ last[c].prev = "LIMIT_UP"
          /\ last[c].cur = "LIMIT_UP"
    /\ sent = <<>>

-----------------------------------------------------------------------------
(* Dates: datetime.date as used by src/core/trading_calendar.py *)

Date(y, m, d) == [year |-> y, month |-> m, day |-> d]

IsLeap(y) == y % 4 = 0 /\ (y % 100 # 0 \/ y % 400 = 0)

DaysInMonth(y, m) ==
    IF m = 2 THEN (IF IsLeap(y) THEN 29 ELSE 28)
    ELSE IF m \in {4, 6, 9, 11} THEN 30 ELSE 31

RECURSIVE DaysBeforeMonth(_, _)
DaysBeforeMonth(y, m) ==
    IF m = 1 THEN 0 ELSE DaysBeforeMonth(y, m - 1) + DaysInMonth(y, m - 1)

\* date.toordinal(): 1 is 0001-01-01
toordinal(dt) ==
    LET y == dt.year - 1
    IN  y * 365 + y \div 4 - y \div 100 + y \div 400
        + DaysBeforeMonth(dt.year, dt.month) + dt.day

\* date.weekday(): 0 is Monday, 5 Saturday, 6 Sunday
weekday(dt) == (toordinal(dt) + 6) % 7

NextDay(dt) ==
    IF dt.day < DaysInMonth(dt.year, dt.month)
    THEN Date(dt.year, dt.month, dt.day + 1)
    ELSE IF dt.month < 12 THEN Date(dt.year, dt.month + 1, 1)
    ELSE Date(dt.year + 1, 1, 1)

PrevDay(dt) ==
    IF dt.day > 1 THEN Date(dt.year, dt.month, dt.day - 1)
    ELSE IF dt.month > 1
    THEN Date(dt.year, dt.month - 1, DaysInMonth(dt.year, dt.month - 1))
    ELSE Date(dt.year - 1, 12, 31)

\* dt + timedelta(days=k)
RECURSIVE AddDays(_, _)
AddDays(dt, k) ==
    IF k = 0 THEN dt
    ELSE IF k > 0 THEN AddDays(NextDay(dt), k - 1)
    ELSE AddDays(PrevDay(dt), k + 1)

-----------------------------------------------------------------------------
(* TradingCalendar: the A-share calendar and its cache *)

\* The clock counts parts of a day
PartsPerDay == 2

\* Days explored after StartDate
MaxDays == 8

\* self._update_interval_days
update_interval_days == 7

\* The date at clock 0, a Friday
StartDate == Date(2024, 12, 27)

\* date.today() at clock now
Today(now) == AddDays(StartDate, now \div PartsPerDay)

Horizon == {AddDays(StartDate, k) : k \in 0..MaxDays}

None == <<>>

\* TradingCalendar.__init__
NewCalendar == [a_share_calendar |-> None, last_update |-> None]

\* A weekday on which the exchange is closed
Holiday == Date(2025, 1, 1)

\* The day-sets ak.tool_trade_date_hist_sina() can publish
DaySets ==
    {{dt \in Horizon : weekday(dt) < 5} \ closed : closed \in {{}, {Holiday}}}

\* What the fetch does: raise, return None or an empty frame, or return days
FetchOutcomes ==
    {[kind |-> k, days |-> {}] : k \in {"raise", "empty"}}
    \cup {[kind |-> "days", days |-> ds] : ds \in DaySets}

\* Variant: a cache is stale only after more than the interval
should_refresh_calendar_Late(cal, now) ==
    \/ cal.a_share_calendar = None
    \/ cal.last_update = None
    \/ (now - cal.last_update[1]) \div PartsPerDay > update_interval_days

\* TradingCalendar._should_refresh_calendar; timedelta.days is the floor
should_refresh_calendar(cal, now) ==
    \/ cal.a_share_calendar = None
    \/ cal.last_update = None
    \/ (now - cal.last_update[1]) \div PartsPerDay >= update_interval_days

\* Variant: every attempt, failed or not, is stamped
load_a_share_calendar_Stamped(cal, now, outcome) ==
    CASE outcome.kind = "raise" ->
            [a_share_calendar |-> None, last_update |-> <<now>>]
      [] outcome.kind = "empty" -> [cal EXCEPT !.last_update = <<now>>]
      [] outcome.kind = "days" ->
            [a_share_calendar |-> <<outcome.days>>, last_update |-> <<now>>]

\* TradingCalendar._load_a_share_calendar: the instance after the call
load_a_share_calendar(cal, now, outcome) ==
    CASE outcome.kind = "raise" -> [cal EXCEPT !.a_share_calendar = None]
      [] outcome.kind = "empty" -> cal
      [] outcome.kind = "days" ->
            [a_share_calendar |-> <<outcome.days>>, last_update |-> <<now>>]

\* Variant: the weekday test comes after the refresh
is_a_share_trading_day_RefreshFirst(cal, now, check_date, outcome) ==
    LET fetched == should_refresh_calendar(cal, now)
        c == IF fetched THEN load_a_share_calendar(cal, now, outcome) ELSE cal
    IN  [result |-> IF weekday(check_date) >= 5 THEN FALSE
                    ELSE IF c.a_share_calendar = None THEN TRUE
                    ELSE check_date \in c.a_share_calendar[1],
         cal |-> c, fetched |-> fetched]

\* TradingCalendar.is_a_share_trading_day(check_date) at clock now, when a
\* fetch would end as outcome: the value returned, the instance after the
\* call, and whether the fetch was attempted
is_a_share_trading_day(cal, now, check_date, outcome) ==
    IF weekday(check_date) >= 5
    THEN [result |-> FALSE, cal |-> cal, fetched |-> FALSE]
    ELSE LET fetched == should_refresh_calendar(cal, now)
             c == IF fetched THEN load_a_share_calendar(cal, now, outcome)
                  ELSE cal
         IN  [result |-> IF c.a_share_calendar = None THEN TRUE
                         ELSE check_date \in c.a_share_calendar[1],
              cal |-> c, fetched |-> fetched]

-----------------------------------------------------------------------------
(* The job wrappers: TaskScheduler._job_wrapper and app _wrap_job *)

\* How a call of the job body, or of notifier.send_text, ends
Endings == {"ok", "raise"}

\* Variant: the job body runs whatever the calendar says
Gate_Open(trading_day_only, is_trading_day) == TRUE

\* The test before the body: FALSE when the wrapper returns early
Gate(trading_day_only, is_trading_day) ==
    ~(trading_day_only /\ ~is_trading_day)

\* How `try: body / except Exception: handler` ends, from the ending of the
\* body and the ending the handler would have
TryExcept(body, handler) == IF body = "ok" THEN "ok" ELSE handler

\* The try statement around func(): whether the body ran, whether the error
\* notification was attempted, and whether an exception left the wrapper.
\* notifier is "none" when self.notifier is not set (and in _wrap_job, which
\* sends nothing), otherwise the ending of send_text
wrapped(open, func, notifier) ==
    IF ~open
    THEN [executed |-> FALSE, notified |-> FALSE, escaped |-> FALSE]
    ELSE LET send_text == IF notifier = "none" THEN "ok" ELSE notifier
         IN  [executed |-> TRUE,
              notified |-> func = "raise" /\ notifier # "none",
              escaped |-> TryExcept(func, TryExcept(send_text, "ok"))
                              = "raise"]

NoCall ==
    [op |-> "none", date |-> StartDate, outcome |-> "raise",
     fetched |-> FALSE, result |-> FALSE, held |-> FALSE, only |-> FALSE,
     func |-> "ok", executed |-> FALSE, escaped |-> FALSE]

InitCalendar ==
    /\ futures_rollover = {}
    /\ pc = "idle"
    /\ df = NoDf
    /\ state = [limit |-> EmptyMap, speed |-> EmptyMap]
    /\ state_file = state
    /\ sent = <<>>
    /\ speed_history = NoHistory
    /\ now_ts = 0
    /\ last = NoInfo
    /\ streak = [c \in Codes |-> NoStreak]
    /\ samples = NoHistory
    /\ calendar = NewCalendar
    /\ clock = 0
    /\ threads = <<>>
    /\ trace = NoCall

\* Time passes
Tick ==
    /\ clock < MaxDays * PartsPerDay
    /\ clock' = clock + 1
    /\ UNCHANGED <<futures_rollover,
                   pc, df, state, state_file, sent, speed_history, now_ts,
                   last, streak, samples, calendar, threads, trace>>

\* A call of is_a_share_trading_day(check_date) on the shared instance
Query ==
    /\ \E check_date \in Horizon, outcome \in FetchOutcomes :
          LET q == is_a_share_trading_day(calendar, clock, check_date, outcome)
          IN  /\ calendar' = q.cal
              /\ trace' = [NoCall EXCEPT !.op = "query", !.date = check_date,
                              !.outcome = outcome.kind, !.fetched = q.fetched,
                              !.result = q.result,
                              !.held = q.cal.a_share_calendar # None]
    /\ UNCHANGED <<futures_rollover,
                   pc, df, state, state_file, sent, speed_history, now_ts,
                   last, streak, samples, clock, threads>>

\* The fetch endings that matter to a wrapper: none without the test
FetchesUnder(trading_day_only) ==
    IF trading_day_only THEN FetchOutcomes
    ELSE {[kind |-> "raise", days |-> {}]}

\* One invocation of a job wrapped by TaskScheduler._job_wrapper: the
\* calendar is the instance of the scheduler
JobWrapper ==
    /\ \E only \in BOOLEAN, func \in Endings :
       \E outcome \in FetchesUnder(only),
          notifier \in IF func = "raise" THEN {"none"} \cup Endings
                       ELSE {"none"} :
          LET q == IF only
                   THEN is_a_share_trading_day(calendar, clock, Today(clock),
                                               outcome)
                   ELSE [result |-> TRUE, cal |-> calendar, fetched |-> FALSE]
              w == wrapped(Gate(only, q.result), func, notifier)
          IN  /\ calendar' = q.cal
              /\ trace' = [op |-> "job", date |-> Today(clock),
                           outcome |-> outcome.kind, fetched |-> q.fetched,
                           result |-> q.result,
                           held |-> q.cal.a_share_calendar # None,
                           only |-> only, func |-> func,
                           executed |-> w.executed, escaped |-> w.escaped]
    /\ UNCHANGED <<futures_rollover,
                   pc, df, state, state_file, sent, speed_history, now_ts,
                   last, streak, samples, clock, threads>>

\* One invocation of a job wrapped by _wrap_job: a new TradingCalendar is
\* built for the test
WrapJob ==
    /\ \E only \in BOOLEAN, func \in Endings :
       \E outcome \in FetchesUnder(only) :
          LET q == IF only
                   THEN is_a_share_trading_day(NewCalendar, clock,
                                               Today(clock), outcome)
                   ELSE [result |-> TRUE, cal |-> NewCalendar,
                         fetched |-> FALSE]
              w == wrapped(Gate(only, q.result), func, "none")
          IN  trace' = [op |-> "wrap", date |-> Today(clock),
                        outcome |-> outcome.kind, fetched |-> q.fetched,
                        result |-> q.result,
                        held |-> q.cal.a_share_calendar # None,
                        only |-> only, func |-> func,
                        executed |-> w.executed, escaped |-> w.escaped]
    /\ UNCHANGED <<futures_rollover,
                   pc, df, state, state_file, sent, speed_history, now_ts,
                   last, streak, samples, calendar, clock, threads>>

NextCalendar == Tick \/ Query

\* The calendar queried with any date
SpecCalendar == InitCalendar /\ [][NextCalendar]_vars

NextGate == Tick \/ JobWrapper \/ WrapJob

\* The calendar queried by the wrappers of the scheduled jobs
SpecGate == InitCalendar /\ [][NextGate]_vars

-----------------------------------------------------------------------------
(* Properties of the A-share calendar (SpecCalendar) *)

\* The step is a call of is_a_share_trading_day; trace' holds its inputs
Queried == clock' = clock /\ trace'.op = "query"

\* No day-set is held, or the last successful refresh is 7 whole days old
Stale(cal, now) ==
    \/ cal.a_share_calendar = None
    \/ /\ cal.last_update # None
       /\ now - cal.last_update[1] >= update_interval_days * PartsPerDay

\* C14: Market A fails open.  A call for a weekday date that attempted the
\* fetch and whose fetch failed (it raised, or returned nothing) returned
\* true, whatever the cache held.
C14_FailOpen ==
    (/\ trace.op = "query"
     /\ weekday(trace.date) < 5
     /\ trace.fetched
     /\ trace.outcome \in {"raise", "empty"})
        => trace.result

\* C15: Market A refresh policy.  A call for a weekday date attempts the
\* fetch exactly when no day-set is held or the last successful refresh is
\* at least 7 whole days old; otherwise it leaves the cache as it is and
\* answers from the cached set; a fetch that succeeds sets last_update to
\* the time of the call.
C15_RefreshPolicy ==
    [][(Queried /\ weekday(trace'.date) < 5) =>
          /\ trace'.fetched <=> Stale(calendar, clock)
          /\ ~trace'.fetched =>
                /\ calendar' = calendar
                /\ trace'.result <=>
                      trace'.date \in calendar.a_share_calendar[1]
          /\ (trace'.fetched /\ trace'.outcome = "days") =>
                calendar'.last_update = <<clock>>]_vars

\* A weekday call half a day short of 7 days after the refresh was answered
\* from the cached set, which does not hold the date
C15_Witness ==
    /\ trace.op = "query"
    /\ weekday(trace.date) < 5
    /\ ~trace.fetched
    /\ ~trace.result
    /\ calendar.a_share_calendar # None
    /\ clock - calendar.last_update[1] = update_interval_days * PartsPerDay - 1

\* C16: Market A weekend short-circuit.  A call for a Saturday or Sunday
\* returns false, attempts no fetch and leaves the day-set and last_update
\* as they were, whether the cache is absent, fresh or stale.
C16_WeekendShortCircuit ==
    [][(Queried /\ weekday(trace'.date) >= 5) =>
          /\ ~trace'.result
          /\ ~trace'.fetched
          /\ calendar' = calendar]_vars

\* A weekend call on a stale cache
C16_Witness ==
    /\ trace.op = "query"
    /\ weekday(trace.date) >= 5
    /\ ~trace.result
    /\ ~trace.fetched
    /\ calendar.a_share_calendar # None
    /\ Stale(calendar, clock)

-----------------------------------------------------------------------------
(* Properties of the job wrappers (SpecGate) *)

\* C17: calendar gating.  In an invocation of a job registered with
\* trading_day_only, the body is not executed when is_a_share_trading_day
\* returned false; it is executed on a weekday when no day-set could be
\* loaded; and no exception of the body or of the error notification leaves
\* the wrapper.
C17_CalendarGating ==
    trace.op \in {"job", "wrap"} =>
        /\ (trace.only /\ ~trace.result) => ~trace.executed
        /\ (trace.only /\ weekday(trace.date) < 5 /\ ~trace.held)
              => trace.executed
        /\ ~trace.escaped

\* On a weekday without a calendar the gated body ran, raised, and the
\* wrapper returned
C17_Witness ==
    /\ trace.op = "job"
    /\ trace.only
    /\ weekday(trace.date) < 5
    /\ trace.fetched
    /\ ~trace.held
    /\ trace.executed
    /\ trace.func = "raise"
    /\ ~trace.escaped

-----------------------------------------------------------------------------
(* TradingCalendar: the US calendar *)

\* Variant: a holiday stays on its date
adjust_weekend_holiday_Unmoved(holiday) == holiday

\* Variant: a Saturday holiday is observed on the Friday before
adjust_weekend_holiday_Friday(holiday) ==
    IF weekday(holiday) = 5 THEN AddDays(holiday, -1)
    ELSE IF weekday(holiday) = 6 THEN AddDays(holiday, 1)
    ELSE holiday

\* TradingCalendar._adjust_weekend_holiday
adjust_weekend_holiday(holiday) ==
    IF weekday(holiday) = 5 THEN AddDays(holiday, 2)
    ELSE IF weekday(holiday) = 6 THEN AddDays(holiday, 1)
    ELSE holiday

\* Variant: a month that starts on the target weekday counts from the
\* second week
get_nth_weekday_Strict(year, month, wd, n) ==
    LET first_weekday == weekday(Date(year, month, 1))
        first_target == IF wd > first_weekday
                        THEN 1 + (wd - first_weekday)
                        ELSE 1 + (7 - first_weekday + wd)
    IN  Date(year, month, first_target + (n - 1) * 7)

\* TradingCalendar._get_nth_weekday
get_nth_weekday(year, month, wd, n) ==
    LET first_weekday == weekday(Date(year, month, 1))
        first_target == IF wd >= first_weekday
                        THEN 1 + (wd - first_weekday)
                        ELSE 1 + (7 - first_weekday + wd)
    IN  Date(year, month, first_target + (n - 1) * 7)

\* The while loop of _get_last_weekday
RECURSIVE BackTo(_, _)
BackTo(last_day, wd) ==
    IF weekday(last_day) # wd THEN BackTo(AddDays(last_day, -1), wd)
    ELSE last_day

\* TradingCalendar._get_last_weekday
get_last_weekday(year, month, wd) ==
    LET next_month == IF month = 12 THEN Date(year + 1, 1, 1)
                      ELSE Date(year, month + 1, 1)
    IN  BackTo(AddDays(next_month, -1), wd)

\* Variant: the Julian epact, without the century terms
get_easter_Julian(year) ==
    LET a == year % 19
        c == year % 100
        i == c \div 4
        k == c % 4
        h == (19 * a + 15) % 30
        l == (32 + 2 * i - h - k) % 7
        m == (a + 11 * h + 22 * l) \div 451
        month == (h + l - 7 * m + 114) \div 31
        day == ((h + l - 7 * m + 114) % 31) + 1
    IN  Date(year, month, day)

\* The congruences of _get_good_friday: easter = date(year, month, day)
get_easter(year) ==
    LET a == year % 19
        b == year \div 100
        c == year % 100
        d == b \div 4
        e == b % 4
        f == (b + 8) \div 25
        g == (b - f + 1) \div 3
        h == (19 * a + b - d - g + 15) % 30
        i == c \div 4
        k == c % 4
        l == (32 + 2 * e + 2 * i - h - k) % 7
        m == (a + 11 * h + 22 * l) \div 451
        month == (h + l - 7 * m + 114) \div 31
        day == ((h + l - 7 * m + 114) % 31) + 1
    IN  Date(year, month, day)

\* TradingCalendar._get_good_friday: easter - timedelta(days=2)
get_good_friday(year) == AddDays(get_easter(year), -2)

\* TradingCalendar._is_us_market_holiday
is_us_market_holiday(check_date) ==
    LET year == check_date.year
    IN  \/ check_date = adjust_weekend_holiday(Date(year, 1, 1))
        \/ check_date = get_nth_weekday(year, 1, 0, 3)
        \/ check_date = get_nth_weekday(year, 2, 0, 3)
        \/ check_date = get_good_friday(year)
        \/ check_date = get_last_weekday(year, 5, 0)
        \/ check_date = adjust_weekend_holiday(Date(year, 7, 4))
        \/ check_date = get_nth_weekday(year, 9, 0, 1)
        \/ check_date = get_nth_weekday(year, 11, 3, 4)
        \/ check_date = adjust_weekend_holiday(Date(year, 12, 25))

\* TradingCalendar.is_us_trading_day(check_date): the value returned, the
\* instance after the call, and whether a fetch was attempted
is_us_trading_day(cal, check_date) ==
    [result |-> IF weekday(check_date) >= 5 THEN FALSE
                ELSE ~is_us_market_holiday(check_date),
     cal |-> cal, fetched |-> FALSE]

\* The first year the repository's test covers
FirstYear == 2024

\* The last year explored
LastYear == 2027

USDates ==
    {Date(y, m, d) : y \in FirstYear..LastYear, m \in 1..12, d \in 1..31}
    \ {dt \in [year : FirstYear..LastYear, month : 1..12, day : 29..31] :
          dt.day > DaysInMonth(dt.year, dt.month)}

InitUS ==
    /\ futures_rollover = {}
    /\ pc = "idle"
    /\ df = NoDf
    /\ state = [limit |-> EmptyMap, speed |-> EmptyMap]
    /\ state_file = state
    /\ sent = <<>>
    /\ speed_history = NoHistory
    /\ now_ts = 0
    /\ last = NoInfo
    /\ streak = [c \in Codes |-> NoStreak]
    /\ samples = NoHistory
    /\ calendar \in {NewCalendar} \cup
                    {[a_share_calendar |-> <<ds>>, last_update |-> <<0>>] :
                        ds \in DaySets}
    /\ clock = 0
    /\ threads = <<>>
    /\ trace = NoCall

\* A call of is_us_trading_day(check_date); the function keeps no state, so
\* one call per behaviour is explored
USQuery ==
    /\ trace.op = "none"
    /\ \E check_date \in USDates :
          LET q == is_us_trading_day(calendar, check_date)
          IN  /\ calendar' = q.cal
              /\ trace' = [NoCall EXCEPT !.op = "us", !.date = check_date,
                              !.fetched = q.fetched, !.result = q.result,
                              !.held = q.cal.a_share_calendar # None]
    /\ UNCHANGED <<futures_rollover,
                   pc, df, state, state_file, sent, speed_history, now_ts,
                   last, streak, samples, clock, threads>>

SpecUS == InitUS /\ [][USQuery]_vars

-----------------------------------------------------------------------------
(* Properties of the US calendar (SpecUS) *)

\* Good Friday of the years explored; 2024 and 2025 are the dates of
\* test_us_trading_days
KnownGoodFriday(year) ==
    CASE year = 2024 -> Date(2024, 3, 29)
      [] year = 2025 -> Date(2025, 4, 18)
      [] year = 2026 -> Date(2026, 4, 3)
      [] year = 2027 -> Date(2027, 3, 26)
      [] year = 2028 -> Date(2028, 4, 14)

\* The first weekday on or after a date
Observed(dt) ==
    CHOOSE x \in {AddDays(dt, k) : k \in 0..2} :
        /\ weekday(x) < 5
        /\ \A k \in 0..2 :
              toordinal(AddDays(dt, k)) < toordinal(x)
                  => weekday(AddDays(dt, k)) >= 5

\* dt is the n-th day of its month that falls on weekday wd
IsNth(dt, month, wd, n) ==
    dt.month = month /\ weekday(dt) = wd /\ (dt.day - 1) \div 7 = n - 1

\* dt is the last day of its month that falls on weekday wd
IsLast(dt, month, wd) ==
    /\ dt.month = month
    /\ weekday(dt) = wd
    /\ dt.day + 7 > DaysInMonth(dt.year, dt.month)

\* dt is one of the nine observances of its year
IsObservance(dt) ==
    \/ dt = Observed(Date(dt.year, 1, 1))
    \/ IsNth(dt, 1, 0, 3)
    \/ IsNth(dt, 2, 0, 3)
    \/ dt = KnownGoodFriday(dt.year)
    \/ IsLast(dt, 5, 0)
    \/ dt = Observed(Date(dt.year, 7, 4))
    \/ IsNth(dt, 9, 0, 1)
    \/ IsNth(dt, 11, 3, 4)
    \/ dt = Observed(Date(dt.year, 12, 25))

\* C20: Market B.  is_us_trading_day(d) is false when d is a Saturday or
\* Sunday or one of the nine observances of d's year (New Year, Independence
\* Day and Christmas moved to the next weekday when they fall on a weekend),
\* and true on every other weekday; the call attempts no fetch and leaves
\* the A-share cache as it was.
C20_USTradingDay ==
    [][trace'.op = "us" =>
          /\ trace'.result <=>
                ~(weekday(trace'.date) >= 5 \/ IsObservance(trace'.date))
          /\ ~trace'.fetched
          /\ calendar' = calendar]_vars

\* Independence Day 2026 falls on a Saturday: the Monday after is closed,
\* and the A-share cache is still held
C20_Witness ==
    /\ trace.op = "us"
    /\ trace.date = Date(2026, 7, 6)
    /\ ~trace.result
    /\ calendar.a_share_calendar # None

-----------------------------------------------------------------------------
(* One poll of the limit tracker over several codes *)

\* The codes a snapshot or a watch-list can hold
ProjectCodes == {"161725", "501018", "600519"}

\* The sequences without repetition over a set
Arrangements(S) ==
    UNION {{s \in [1..n -> S] : \A i, j \in 1..n : i # j => s[i] # s[j]} :
              n \in 0..Cardinality(S)}

\* parse_codes_from_file returns the codes of the file without repetition
WatchLists == Arrangements(ProjectCodes)

\* Prepared snapshots with the pct column: the rows in the order of the data
\* source, every row NORMAL or LIMIT_UP
ProjectSnapshots ==
    UNION {[cols : {{"pct"}}, order : {o},
            rows : [{o[i] : i \in DOMAIN o} ->
                       [pct : {Cell(0, 10), Cell(LimitPctTenths + 2, 10)},
                        price : {Dash}, prev_close : {Dash},
                        limit_up : {Dash}, limit_down : {Dash}]]] :
           o \in Arrangements(ProjectCodes)}

NoPoll ==
    [op |-> "none", codes |-> <<>>, before |-> EmptyMap, visited |-> <<>>,
     missing |-> {}, set |-> FALSE]

\* A monitor is built with some watch-list on some stored map
InitProject ==
    /\ futures_rollover = {}
    /\ pc = "idle"
    /\ \E m \in UNION {[present -> {"NORMAL", "LIMIT_UP"}] :
                          present \in SUBSET ProjectCodes} :
          state = [limit |-> m, speed |-> EmptyMap]
    /\ \E codes \in WatchLists : trace = [NoPoll EXCEPT !.codes = codes]
    /\ df = NoDf
    /\ state_file = state
    /\ sent = <<>>
    /\ speed_history = NoHistory
    /\ now_ts = 0
    /\ last = NoInfo
    /\ streak = [c \in Codes |-> NoStreak]
    /\ samples = NoHistory
    /\ calendar = <<>>
    /\ clock = 0
    /\ threads = <<>>

\* run_monitor: one poll; the snapshot is kept in df
PollProject ==
    /\ trace.op = "none"
    /\ df' \in ProjectSnapshots
    /\ LET r == limit_alerts(trace.codes, df', state.limit)
       IN  /\ IF r.set
              THEN StateSet("limit", r.limit, TRUE)
              ELSE UNCHANGED <<state, state_file>>
           /\ sent' = r.msgs
           /\ last' = r.info
           /\ trace' = [op |-> "poll", codes |-> trace.codes,
                        before |-> state.limit, visited |-> r.visited,
                        missing |-> r.missing, set |-> r.set]
    /\ UNCHANGED <<futures_rollover,
                   pc, speed_history, now_ts, streak, samples, calendar, clock,
                   threads>>

SpecProject == InitProject /\ [][PollProject]_vars

\* The position of a code in a watch-list
Pos(codes, c) == CHOOSE i \in DOMAIN codes : codes[i] = c

\* The codes of the messages, in the order sent
Recipients(msgs) == [i \in DOMAIN msgs |-> msgs[i].code]

RECURSIVE IsSubsequence(_, _)
IsSubsequence(a, b) ==
    IF a = <<>> THEN TRUE
    ELSE IF b = <<>> THEN FALSE
    ELSE IF Head(a) = Head(b) THEN IsSubsequence(Tail(a), Tail(b))
    ELSE IsSubsequence(a, Tail(b))

\* C19: watch-list projection.  The rows a poll visits are exactly the rows
\* of the snapshot whose code is in the watch-list, each once and in
\* watch-list order, and every one of them is processed and stored; messages
\* go out in that order; the watch-list codes without a row are the ones
\* reported, and the poll stops early only when no watched code has a row.
C19_WatchListProjection ==
    trace.op = "poll" =>
        LET watched == {trace.codes[i] : i \in DOMAIN trace.codes}
            present == DOMAIN df.rows \cap watched
        IN  /\ {trace.visited[i] : i \in DOMAIN trace.visited} = present
            /\ Len(trace.visited) = Cardinality(present)
            /\ \A i, j \in DOMAIN trace.visited :
                  i < j => Pos(trace.codes, trace.visited[i])
                           < Pos(trace.codes, trace.visited[j])
            /\ IsSubsequence(Recipients(sent), trace.visited)
            /\ trace.missing = watched \ DOMAIN df.rows
            /\ trace.set <=> present # {}
            /\ \A c \in present :
                  /\ c \in DOMAIN last /\ last[c].processed
                  /\ state.limit[c] = last[c].cur
            /\ \A c \in DOMAIN state.limit \ present :
                  c \in DOMAIN trace.before /\ state.limit[c] = trace.before[c]
            /\ DOMAIN state.limit = DOMAIN trace.before \cup present

\* Two watched codes are listed by the data source in the opposite order and
\* a third watched code has no row: both alerts go out, in watch-list order
C19_Witness ==
    /\ trace.op = "poll"
    /\ trace.codes = <<"600519", "161725", "501018">>
    /\ df.order = <<"501018", "600519">>
    /\ trace.visited = <<"600519", "501018">>
    /\ trace.missing = {"161725"}
    /\ Recipients(sent) = <<"600519", "501018">>

-----------------------------------------------------------------------------
(* The normalizer: find_code_column_index and prepare_lof_df *)

\* Rows of the raw tables explored
MaxRows == 1

\* A cell of a text column is the sequence of its characters
Digits == {"0", "1", "2", "3", "4", "5", "6", "7", "8", "9"}

\* re.compile(r"^\d{6}$")
pattern(text) == Len(text) = 6 /\ \A i \in DOMAIN text : text[i] \in Digits

\* str.zfill(width)
RECURSIVE zfill(_, _)
zfill(text, width) ==
    IF Len(text) >= width THEN text ELSE zfill(<<"0">> \o text, width)

CodeA == <<"0", "0", "0", "0", "0", "1">>

CodeB == <<"6", "0", "0", "5", "1", "9">>

\* What the text columns of the data source can hold: a code, a code
\* without its leading zeros, a name
Texts == {CodeA, CodeB, <<"1">>, <<"x">>}

\* A raw table: two text columns and the pct column, row by row; the
\* padded texts of a column differ from row to row
RawTables ==
    UNION {{t \in [text : [1..2 -> [1..n -> Texts]],
                   pct : [1..n -> {Cell(0, 10), Cell(LimitPctTenths + 2, 10)}]] :
               \A k \in 1..2 : \A i, j \in 1..n :
                   i # j => zfill(t.text[k][i], 6) # zfill(t.text[k][j], 6)} :
           n \in 0..MaxRows}

\* len(df)
NRows(t) == Len(t.pct)

\* hits of one column: the values of the sample that match the pattern
Hits(t, idx) ==
    LET sample == Min(50, NRows(t))
    IN  Cardinality({i \in 1..sample : pattern(t.text[idx][i])})

\* The loop of find_code_column_index from column idx on; scores are
\* fractions hits / len, compared by cross-multiplication
RECURSIVE BestFrom(_, _, _, _)
BestFrom(t, idx, best_idx, best_score) ==
    IF idx > Len(t.text) THEN best_idx
    ELSE LET score == <<Hits(t, idx), Min(50, NRows(t))>>
         IN  IF score[1] * best_score[2] > best_score[1] * score[2]
             THEN BestFrom(t, idx + 1, idx, score)
             ELSE BestFrom(t, idx + 1, best_idx, best_score)

\* find_code_column_index; columns are counted from 1 here
find_code_column_index(t) ==
    IF NRows(t) = 0 THEN 1 ELSE BestFrom(t, 1, 1, <<-1, 1>>)

\* prepare_lof_df, followed by get_column_map: None, or the prepared
\* snapshot keyed by _code
prepare_lof_df(t) ==
    IF NRows(t) = 0 THEN None
    ELSE LET code_idx == find_code_column_index(t)
             code == [i \in 1..NRows(t) |-> zfill(t.text[code_idx][i], 6)]
         IN  <<[cols |-> {"pct"}, order |-> code,
                rows |-> [c \in {code[i] : i \in 1..NRows(t)} |->
                             [pct |-> t.pct[CHOOSE i \in 1..NRows(t) :
                                                code[i] = c],
                              price |-> Dash, prev_close |-> Dash,
                              limit_up |-> Dash, limit_down |-> Dash]]]>>

InitNormalize ==
    /\ futures_rollover = {}
    /\ pc = "idle"
    /\ \E m \in UNION {[present -> {"NORMAL", "LIMIT_UP"}] :
                          present \in SUBSET {CodeA, CodeB}} :
          state = [limit |-> m, speed |-> EmptyMap]
    /\ \E codes \in Arrangements({CodeA, CodeB}) \ {<<>>} :
          trace = [NoPoll EXCEPT !.codes = codes]
    /\ df = NoDf
    /\ state_file = state
    /\ sent = <<>>
    /\ speed_history = NoHistory
    /\ now_ts = 0
    /\ last = NoInfo
    /\ streak = [c \in Codes |-> NoStreak]
    /\ samples = NoHistory
    /\ calendar = <<>>
    /\ clock = 0
    /\ threads = <<>>

\* run_monitor: df = ak.fund_lof_spot_em(), kept in df; prepared =
\* prepare_lof_df(df); return when it is None; else the limit watch
PollNormalize ==
    /\ trace.op = "none"
    /\ df' \in RawTables
    /\ LET prepared == prepare_lof_df(df')
           r == limit_alerts(trace.codes, prepared[1], state.limit)
       IN  IF prepared = None
           THEN /\ trace' = [trace EXCEPT !.op = "no data",
                                          !.before = state.limit]
                /\ UNCHANGED <<state, state_file, sent, last>>
           ELSE /\ IF r.set
                   THEN StateSet("limit", r.limit, TRUE)
                   ELSE UNCHANGED <<state, state_file>>
                /\ sent' = r.msgs
                /\ last' = r.info
                /\ trace' = [op |-> "poll", codes |-> trace.codes,
                             before |-> state.limit, visited |-> r.visited,
                             missing |-> r.missing, set |-> r.set]
    /\ UNCHANGED <<futures_rollover,
                   pc, speed_history, now_ts, streak, samples, calendar, clock,
                   threads>>

SpecNormalize == InitNormalize /\ [][PollNormalize]_vars

\* The table is empty, or no column holds any 6-digit value
NoCodeColumn(t) ==
    \/ NRows(t) = 0
    \/ \A k \in DOMAIN t.text : \A i \in 1..NRows(t) : ~pattern(t.text[k][i])

\* C18: normalizer failure mode.  When the snapshot is empty, or no column
\* holds any 6-digit value, the normalizer returns "no data" and the poll
\* is skipped: nothing is sent and the status map is as before.
C18_NoDataSkipsPoll ==
    (trace.op # "none" /\ NoCodeColumn(df)) =>
        /\ sent = <<>>
        /\ state.limit = trace.before

-----------------------------------------------------------------------------
(* Calendar arithmetic on its own: the date helpers of TradingCalendar and
   the expiry day of the rollover module *)

\* The monitor's variables at rest
MonitorIdle ==
    /\ pc = "idle"
    /\ df = NoDf
    /\ state = [limit |-> EmptyMap, speed |-> EmptyMap]
    /\ state_file = state
    /\ sent = <<>>
    /\ speed_history = NoHistory
    /\ now_ts = 0
    /\ last = NoInfo
    /\ streak = [c \in Codes |-> NoStreak]
    /\ samples = NoHistory

monitor == <<pc, df, state, state_file, sent, speed_history, now_ts, last,
             streak, samples>>

\* date(year, month, day) raises ValueError unless this holds
IsDate(dt) ==
    /\ dt.month \in 1..12
    /\ dt.day \in 1..DaysInMonth(dt.year, dt.month)

\* The largest n the docstring of _get_nth_weekday allows
MaxNth == 5

\* The years over which the arithmetic is explored
ArithFirstYear == 1900

ArithLastYear == 2099

ArithYears == ArithFirstYear..ArithLastYear

\* calendar.monthcalendar(year, month): the weeks of the month, Monday
\* first, 0 for the days outside the month
monthcalendar(year, month) ==
    LET first_weekday == weekday(Date(year, month, 1))
        ndays == DaysInMonth(year, month)
        nweeks == (first_weekday + ndays + 6) \div 7
    IN  [w \in 1..nweeks |->
            [p \in 1..7 |->
                LET d == 7 * (w - 1) + p - first_weekday
                IN  IF d \in 1..ndays THEN d ELSE 0]]

\* Variant: the Friday of the third week of the month calendar
third_friday_ThirdWeek(year, month) == monthcalendar(year, month)[3][5]

\* _third_friday(year, month); w[4] is the fifth entry of a week
third_friday(year, month) ==
    LET weeks == monthcalendar(year, month)
        fridays == SelectSeq([w \in 1..Len(weeks) |-> weeks[w][5]],
                             LAMBDA x : x # 0)
    IN  fridays[3]

ArithDates ==
    {dt \in [year : ArithYears, month : 1..12, day : 1..31] : IsDate(dt)}

NoArith ==
    [op |-> "none", year |-> 0, month |-> 0, wd |-> 0, n |-> 0,
     date |-> StartDate, out |-> StartDate, day |-> 0, raised |-> FALSE,
     trading |-> FALSE]

InitDates ==
    /\ futures_rollover = {}
    /\ MonitorIdle
    /\ calendar = NewCalendar
    /\ clock = 0
    /\ threads = <<>>
    /\ trace = NoArith

\* A call of _get_nth_weekday(year, month, weekday, n)
NthWeekday ==
    /\ trace.op = "none"
    /\ \E year \in ArithYears, month \in 1..12, wd \in 0..6, n \in 1..MaxNth :
          LET out == get_nth_weekday(year, month, wd, n)
          IN  trace' = [NoArith EXCEPT !.op = "nth", !.year = year,
                           !.month = month, !.wd = wd, !.n = n, !.out = out,
                           !.raised = ~IsDate(out)]
    /\ UNCHANGED <<futures_rollover, monitor, calendar, clock, threads>>

\* A call of _adjust_weekend_holiday(holiday), and of is_us_trading_day on
\* the day before the holiday
AdjustHoliday ==
    /\ trace.op = "none"
    /\ \E holiday \in ArithDates :
          trace' = [NoArith EXCEPT
                       !.op = "adjust", !.date = holiday,
                       !.out = adjust_weekend_holiday(holiday),
                       !.trading = is_us_trading_day(
                                       calendar, AddDays(holiday, -1)).result]
    /\ UNCHANGED <<futures_rollover, monitor, calendar, clock, threads>>

\* A call of _get_good_friday(year); date is the Easter date it computes
GoodFriday ==
    /\ trace.op = "none"
    /\ \E year \in ArithYears :
          trace' = [NoArith EXCEPT !.op = "easter", !.year = year,
                       !.date = get_easter(year),
                       !.out = get_good_friday(year),
                       !.raised = ~IsDate(get_easter(year))]
    /\ UNCHANGED <<futures_rollover, monitor, calendar, clock, threads>>

\* A call of _third_friday(year, month)
ThirdFriday ==
    /\ trace.op = "none"
    /\ \E year \in ArithYears, month \in 1..12 :
          trace' = [NoArith EXCEPT !.op = "third", !.year = year,
                       !.month = month, !.day = third_friday(year, month)]
    /\ UNCHANGED <<futures_rollover, monitor, calendar, clock, threads>>

NextDates == NthWeekday \/ AdjustHoliday \/ GoodFriday \/ ThirdFriday

SpecDates == InitDates /\ [][NextDates]_vars

-----------------------------------------------------------------------------
(* Properties of the calendar arithmetic (SpecDates) *)

\* C21: n-th weekday arithmetic.  For every month, target weekday 0..6 and
\* n in 1..4, _get_nth_weekday returns a valid date of that month whose
\* weekday is the target and whose day d satisfies 7(n-1) < d <= 7n; the
\* 3rd Friday of March 2024 is the 15th and the 4th Thursday of November
\* 2024 the 28th.
C21_NthWeekday ==
    (trace.op = "nth" /\ trace.n <= 4) =>
        /\ ~trace.raised
        /\ trace.out.year = trace.year
        /\ trace.out.month = trace.month
        /\ (toordinal(trace.out) + 6) % 7 = trace.wd
        /\ 7 * (trace.n - 1) < trace.out.day
        /\ trace.out.day <= 7 * trace.n
        /\ (<<trace.year, trace.month, trace.wd, trace.n>> = <<2024, 3, 4, 3>>
               => trace.out.day = 15)
        /\ (<<trace.year, trace.month, trace.wd, trace.n>> = <<2024, 11, 3, 4>>
               => trace.out.day = 28)

\* The 3rd Friday of March 2024
C21_Witness ==
    /\ trace.op = "nth"
    /\ <<trace.year, trace.month, trace.wd, trace.n>> = <<2024, 3, 4, 3>>
    /\ trace.out = Date(2024, 3, 15)

\* New Year, Independence Day, Christmas
FixedDate(dt) == <<dt.month, dt.day>> \in {<<1, 1>>, <<7, 4>>, <<12, 25>>}

\* C22: weekend adjustment.  _adjust_weekend_holiday moves a Saturday
\* holiday two days on and a Sunday holiday one day on, to the Monday, and
\* leaves a weekday holiday where it is; the observed date is always Monday
\* to Friday, and the Friday before a Saturday fixed-date holiday is a
\* trading day.
C22_WeekendAdjustment ==
    trace.op = "adjust" =>
        LET w == weekday(trace.date)
            moved == toordinal(trace.out) - toordinal(trace.date)
        IN  /\ w = 5 => moved = 2
            /\ w = 6 => moved = 1
            /\ w < 5 => trace.out = trace.date
            /\ weekday(trace.out) \in 0..4
            /\ (w = 5 /\ FixedDate(trace.date)) => trace.trading

\* Independence Day 2026 is a Saturday: observed on Monday the 6th, and
\* Friday the 3rd is a trading day
C22_Witness ==
    /\ trace.op = "adjust"
    /\ trace.date = Date(2026, 7, 4)
    /\ trace.out = Date(2026, 7, 6)
    /\ trace.trading

\* C23: the moving holiday.  For every year explored the congruences of
\* _get_good_friday give a valid date in March or April that is a Sunday,
\* and the date returned is two days before it, a Friday; 2024 gives
\* March 29 and 2025 April 18.
C23_GoodFriday ==
    trace.op = "easter" =>
        /\ ~trace.raised
        /\ trace.date.year = trace.year
        /\ trace.date.month \in {3, 4}
        /\ weekday(trace.date) = 6
        /\ toordinal(trace.out) = toordinal(trace.date) - 2
        /\ weekday(trace.out) = 4
        /\ trace.year = 2024 => trace.out = Date(2024, 3, 29)
        /\ trace.year = 2025 => trace.out = Date(2025, 4, 18)

\* Easter 2024 is March 31
C23_Witness ==
    /\ trace.op = "easter"
    /\ trace.year = 2024
    /\ trace.date = Date(2024, 3, 31)
    /\ trace.out = Date(2024, 3, 29)

\* C26: shared expiry arithmetic.  For every year and month the day that
\* _third_friday returns is the day of _get_nth_weekday(year, month,
\* Friday, 3).
C26_ThirdFridayAgrees ==
    trace.op = "third" =>
        trace.day = get_nth_weekday(trace.year, trace.month, 4, 3).day

\* June 2024 starts on a Saturday: its Fridays are the 7th, 14th and 21st
C26_Witness ==
    /\ trace.op = "third"
    /\ trace.year = 2024
    /\ trace.month = 6
    /\ trace.day = 21

-----------------------------------------------------------------------------
(* TradingCalendar.get_recent_trading_days *)

\* The largest count asked for
MaxCount == 3

\* The days of the window: timedelta(days=30)
recent_window_days == 30

\* Dates around the two ends of the window that a published day-set may
\* hold, as offsets from the date at clock 0
RecentOffsets == {1, 0, -1, -2, -29, -30, -31}

RecentDaySets == {{AddDays(StartDate, k) : k \in ks} : ks \in SUBSET RecentOffsets}

RecentOutcomes ==
    {[kind |-> k, days |-> {}] : k \in {"raise", "empty"}}
    \cup {[kind |-> "days", days |-> ds] : ds \in RecentDaySets}

\* Variant: the window includes the date thirty days back
RECURSIVE RecentLoop_Inclusive(_, _, _, _, _, _)
RecentLoop_Inclusive(days, today, count, check_date, recent_days, examined) ==
    IF /\ Len(recent_days) < count
       /\ toordinal(check_date) >= toordinal(today) - recent_window_days
    THEN RecentLoop_Inclusive(days, today, count, AddDays(check_date, -1),
                    IF check_date \in days
                    THEN Append(recent_days, check_date) ELSE recent_days,
                    examined + 1)
    ELSE [result |-> recent_days, examined |-> examined]

\* The while loop of get_recent_trading_days; examined counts its rounds
RECURSIVE RecentLoop(_, _, _, _, _, _)
RecentLoop(days, today, count, check_date, recent_days, examined) ==
    IF /\ Len(recent_days) < count
       /\ toordinal(check_date) > toordinal(today) - recent_window_days
    THEN RecentLoop(days, today, count, AddDays(check_date, -1),
                    IF check_date \in days
                    THEN Append(recent_days, check_date) ELSE recent_days,
                    examined + 1)
    ELSE [result |-> recent_days, examined |-> examined]

\* TradingCalendar.get_recent_trading_days(count) at clock now, when a
\* fetch would end as outcome
get_recent_trading_days(cal, now, count, outcome) ==
    LET c == IF should_refresh_calendar(cal, now)
             THEN load_a_share_calendar(cal, now, outcome) ELSE cal
    IN  IF c.a_share_calendar = None
        THEN [result |-> <<>>, examined |-> 0, cal |-> c]
        ELSE LET today == Today(now)
                 r == RecentLoop(c.a_share_calendar[1], today, count, today,
                                 <<>>, 0)
             IN  [result |-> r.result, examined |-> r.examined, cal |-> c]

NoRecent ==
    [op |-> "none", count |-> 0, today |-> StartDate, result |-> <<>>,
     examined |-> 0]

InitRecent ==
    /\ futures_rollover = {}
    /\ MonitorIdle
    /\ calendar \in {NewCalendar} \cup
                    {[a_share_calendar |-> <<ds>>, last_update |-> <<0>>] :
                        ds \in RecentDaySets}
    /\ clock = 0
    /\ threads = <<>>
    /\ trace = NoRecent

\* The fetch endings that matter to a call: one when no fetch is attempted
RecentFetches ==
    IF should_refresh_calendar(calendar, clock) THEN RecentOutcomes
    ELSE {[kind |-> "raise", days |-> {}]}

\* A call of get_recent_trading_days(count) on the instance
Recent ==
    /\ trace.op = "none"
    /\ \E count \in -1..MaxCount, outcome \in RecentFetches :
          LET r == get_recent_trading_days(calendar, clock, count, outcome)
          IN  /\ calendar' = r.cal
              /\ trace' = [op |-> "recent", count |-> count,
                           today |-> Today(clock), result |-> r.result,
                           examined |-> r.examined]
    /\ UNCHANGED <<futures_rollover, monitor, clock, threads>>

SpecRecent == InitRecent /\ [][Recent]_vars

\* The members of the cached day-set among today, today-1, ..., today-29
InSpan ==
    IF calendar.a_share_calendar = None THEN {}
    ELSE {dt \in calendar.a_share_calendar[1] :
             /\ toordinal(dt) <= toordinal(trace.today)
             /\ toordinal(dt) >= toordinal(trace.today) - 29}

\* C24: get_recent_trading_days(count) examines at most the 30 dates today,
\* ..., today-29 and returns at most count dates in strictly descending
\* order, each in the cached day-set: the count most recent members within
\* that span, fewer if the span holds fewer, none if count <= 0.
C24_RecentTradingDays ==
    trace.op = "recent" =>
        LET res == trace.result
            want == IF trace.count <= 0 THEN 0
                    ELSE Min(trace.count, Cardinality(InSpan))
        IN  /\ trace.examined <= 30
            /\ Len(res) = want
            /\ \A i \in DOMAIN res : res[i] \in InSpan
            /\ \A i, j \in DOMAIN res :
                  i < j => toordinal(res[i]) > toordinal(res[j])
            /\ \A dt \in InSpan :
                  (\A i \in DOMAIN res : res[i] # dt) =>
                      \A i \in DOMAIN res : toordinal(dt) < toordinal(res[i])

\* Two dates asked for; the set holds today, today-29 and today-30: the
\* walk goes to the end of the window and does not reach today-30
C24_Witness ==
    /\ trace.op = "recent"
    /\ trace.count = 2
    /\ calendar.a_share_calendar # None
    /\ calendar.a_share_calendar[1] =
          {AddDays(StartDate, k) : k \in {0, -29, -30}}
    /\ trace.result = <<StartDate, AddDays(StartDate, -29)>>
    /\ trace.examined = 30

-----------------------------------------------------------------------------
(* The rollover module: contract codes and the signal *)

DigitChars == <<"0", "1", "2", "3", "4", "5", "6", "7", "8", "9">>

\* str(n) for n >= 0, as the sequence of its characters
RECURSIVE str(_)
str(n) ==
    IF n < 10 THEN <<DigitChars[n + 1]>>
    ELSE Append(str(n \div 10), DigitChars[(n % 10) + 1])

\* s[k:] for k >= 0
SliceFrom(s, k) == SubSeq(s, k + 1, Len(s))

\* The contract families of check_and_save_rollover
ContractTypes == {<<"I", "C">>, <<"I", "M">>}

\* Variant: the contract rolls on its expiry day
contract_codes_RollOnExpiry(ctype, today) ==
    LET y == today.year
        m == today.month
        exp == third_friday(y, m)
        main == IF today.day < exp THEN [m |-> m, y |-> y]
                ELSE IF m = 12 THEN [m |-> 1, y |-> y + 1]
                ELSE [m |-> m + 1, y |-> y]
        next == IF main.m = 12 THEN [m |-> 1, y |-> main.y + 1]
                ELSE [m |-> main.m + 1, y |-> main.y]
    IN  [main |-> ctype \o SliceFrom(str(main.y), 2) \o zfill(str(main.m), 2),
         next |-> ctype \o SliceFrom(str(next.y), 2) \o zfill(str(next.m), 2)]

\* _contract_codes(ctype, today)
contract_codes(ctype, today) ==
    LET y == today.year
        m == today.month
        exp == third_friday(y, m)
        main == IF today.day <= exp THEN [m |-> m, y |-> y]
                ELSE IF m = 12 THEN [m |-> 1, y |-> y + 1]
                ELSE [m |-> m + 1, y |-> y]
        next == IF main.m = 12 THEN [m |-> 1, y |-> main.y + 1]
                ELSE [m |-> main.m + 1, y |-> main.y]
    IN  [main |-> ctype \o SliceFrom(str(main.y), 2) \o zfill(str(main.m), 2),
         next |-> ctype \o SliceFrom(str(next.y), 2) \o zfill(str(next.m), 2)]

\* round(n / d, 4) for n >= 0 and d > 0, in ten-thousandths: the nearest
\* multiple of 0.0001, and the even one when two are equally near
round4(n, d) ==
    LET q == (n * 10000) \div d
        r == (n * 10000) % d
    IN  IF 2 * r > d THEN q + 1
        ELSE IF 2 * r < d THEN q
        ELSE IF q % 2 = 0 THEN q ELSE q + 1

\* Variant: no escalation near the expiry
check_signal_NoBoost(main_vol, main_oi, next_vol, next_oi, today) ==
    LET v_ratio == IF main_vol > 0 THEN round4(next_vol, main_vol) ELSE 0
        o_ratio == IF main_oi > 0 THEN round4(next_oi, main_oi) ELSE 0
        base == IF v_ratio > 15000 /\ o_ratio > 15000 THEN <<"strong">>
                ELSE IF v_ratio > 10000 /\ o_ratio > 10000 THEN <<"medium">>
                ELSE IF v_ratio > 20000 THEN <<"volume">>
                ELSE <<>>
        exp == third_friday(today.year, today.month)
        days_left == exp - today.day
        near == IF 0 < days_left /\ days_left <= 10 THEN <<"near">> ELSE <<>>
        reasons == base \o near
    IN  [signal |-> base # <<>>, v_ratio |-> v_ratio, o_ratio |-> o_ratio,
         reasons |-> IF reasons = <<>> THEN <<"none">> ELSE reasons]

\* Variant: the expiry day is in the window
check_signal_ExpiryDay(main_vol, main_oi, next_vol, next_oi, today) ==
    LET v_ratio == IF main_vol > 0 THEN round4(next_vol, main_vol) ELSE 0
        o_ratio == IF main_oi > 0 THEN round4(next_oi, main_oi) ELSE 0
        base == IF v_ratio > 15000 /\ o_ratio > 15000 THEN <<"strong">>
                ELSE IF v_ratio > 10000 /\ o_ratio > 10000 THEN <<"medium">>
                ELSE IF v_ratio > 20000 THEN <<"volume">>
                ELSE <<>>
        exp == third_friday(today.year, today.month)
        days_left == exp - today.day
        near == IF 0 <= days_left /\ days_left <= 10 THEN <<"near">> ELSE <<>>
        boost == near # <<>> /\ base = <<>>
                     /\ (v_ratio > 8000 \/ o_ratio > 8000)
        reasons == base \o near
                       \o (IF boost THEN <<"near_trigger">> ELSE <<>>)
    IN  [signal |-> base # <<>> \/ boost,
         v_ratio |-> v_ratio, o_ratio |-> o_ratio,
         reasons |-> IF reasons = <<>> THEN <<"none">> ELSE reasons]

\* _check_signal(main_vol, main_oi, next_vol, next_oi, today); the ratios
\* are in ten-thousandths, reasons holds one tag for each text appended
check_signal(main_vol, main_oi, next_vol, next_oi, today) ==
    LET v_ratio == IF main_vol > 0 THEN round4(next_vol, main_vol) ELSE 0
        o_ratio == IF main_oi > 0 THEN round4(next_oi, main_oi) ELSE 0
        base == IF v_ratio > 15000 /\ o_ratio > 15000 THEN <<"strong">>
                ELSE IF v_ratio > 10000 /\ o_ratio > 10000 THEN <<"medium">>
                ELSE IF v_ratio > 20000 THEN <<"volume">>
                ELSE <<>>
        exp == third_friday(today.year, today.month)
        days_left == exp - today.day
        near == IF 0 < days_left /\ days_left <= 10 THEN <<"near">> ELSE <<>>
        boost == near # <<>> /\ base = <<>>
                     /\ (v_ratio > 8000 \/ o_ratio > 8000)
        reasons == base \o near
                       \o (IF boost THEN <<"near_trigger">> ELSE <<>>)
    IN  [signal |-> base # <<>> \/ boost,
         v_ratio |-> v_ratio, o_ratio |-> o_ratio,
         reasons |-> IF reasons = <<>> THEN <<"none">> ELSE reasons]

\* The volumes and open interests explored: those of the main contract
MainQuantities == {0, 10, 25000}

\* and those of the next contract
NextQuantities == {0, 2, 8, 9, 10, 11, 15, 16, 20, 21, 25001}

\* The dates on which the signal is computed: one month
SignalDates == {dt \in USDates : dt.year = FirstYear /\ dt.month = 3}

NoFutures ==
    [op |-> "none", ctype |-> <<>>, today |-> StartDate, main |-> <<>>,
     next |-> <<>>, main_vol |-> 0, main_oi |-> 0, next_vol |-> 0,
     next_oi |-> 0, signal |-> FALSE, v_ratio |-> 0, o_ratio |-> 0,
     reasons |-> <<>>]

InitFutures ==
    /\ futures_rollover = {}
    /\ MonitorIdle
    /\ calendar = NewCalendar
    /\ clock = 0
    /\ threads = <<>>
    /\ trace = NoFutures

\* A call of _contract_codes(ctype, today)
ContractCodes ==
    /\ trace.op = "none"
    /\ \E ctype \in ContractTypes, today \in USDates :
          LET r == contract_codes(ctype, today)
          IN  trace' = [NoFutures EXCEPT !.op = "codes", !.ctype = ctype,
                           !.today = today, !.main = r.main, !.next = r.next]
    /\ UNCHANGED <<futures_rollover, monitor, calendar, clock, threads>>

\* A call of _check_signal(main_vol, main_oi, next_vol, next_oi, today)
CheckSignal ==
    /\ trace.op = "none"
    /\ \E main_vol, main_oi \in MainQuantities,
          next_vol, next_oi \in NextQuantities, today \in SignalDates :
          LET r == check_signal(main_vol, main_oi, next_vol, next_oi, today)
          IN  trace' = [NoFutures EXCEPT
                           !.op = "signal", !.today = today,
                           !.main_vol = main_vol, !.main_oi = main_oi,
                           !.next_vol = next_vol, !.next_oi = next_oi,
                           !.signal = r.signal, !.v_ratio = r.v_ratio,
                           !.o_ratio = r.o_ratio, !.reasons = r.reasons]
    /\ UNCHANGED <<futures_rollover, monitor, calendar, clock, threads>>

\* One contract type in check_and_save_rollover (lines 197-209): the codes
\* of the day, then the signal of the day from the quotes
SignalOfDay ==
    /\ trace.op = "none"
    /\ \E ctype \in ContractTypes, today \in USDates, next_vol \in {2, 9} :
          \E c \in {contract_codes(ctype, today)},
             r \in {check_signal(10, 10, next_vol, 2, today)} :
             trace' = [NoFutures EXCEPT
                          !.op = "day", !.ctype = ctype, !.today = today,
                          !.main = c.main, !.next = c.next,
                          !.main_vol = 10, !.main_oi = 10,
                          !.next_vol = next_vol, !.next_oi = 2,
                          !.signal = r.signal, !.v_ratio = r.v_ratio,
                          !.o_ratio = r.o_ratio, !.reasons = r.reasons]
    /\ UNCHANGED <<futures_rollover, monitor, calendar, clock, threads>>

NextFutures == ContractCodes \/ CheckSignal \/ SignalOfDay

SpecFutures == InitFutures /\ [][NextFutures]_vars

-----------------------------------------------------------------------------
(* Properties of the rollover functions (SpecFutures) *)

\* The day of the 3rd Friday, from the weekdays of the 15th to the 21st
ThirdFridayOf(year, month) ==
    CHOOSE d \in 15..21 : (toordinal(Date(year, month, d)) + 6) % 7 = 4

\* The month after a month
MonthAfter(ym) ==
    IF ym[2] = 12 THEN <<ym[1] + 1, 1>> ELSE <<ym[1], ym[2] + 1>>

\* type + two digits of the year + two digits of the month
CodeOf(ctype, ym) ==
    ctype \o <<DigitChars[((ym[1] % 100) \div 10) + 1],
               DigitChars[(ym[1] % 10) + 1],
               DigitChars[(ym[2] \div 10) + 1],
               DigitChars[(ym[2] % 10) + 1]>>

\* C25: contract selection.  The main contract is the current month's iff
\* today's day of the month is on or before that month's 3rd Friday, else
\* the following month's; the next contract is one calendar month after
\* main; December rolls to January of the next year; a code is the type,
\* the 2-digit year and the 2-digit zero-padded month.
C25_ContractSelection ==
    trace.op = "codes" =>
        LET this == <<trace.today.year, trace.today.month>>
            main == IF trace.today.day
                          <= ThirdFridayOf(trace.today.year, trace.today.month)
                    THEN this ELSE MonthAfter(this)
        IN  /\ trace.main = CodeOf(trace.ctype, main)
            /\ trace.next = CodeOf(trace.ctype, MonthAfter(main))
            /\ Len(trace.main) = 6
            /\ Len(trace.next) = 6

\* The day after the 3rd Friday of December 2025: main is January 2026 and
\* next February 2026
C25_Witness ==
    /\ trace.op = "codes"
    /\ trace.today = Date(2025, 12, 20)
    /\ trace.main = <<"I", "M", "2", "6", "0", "1">>
    /\ trace.next = <<"I", "M", "2", "6", "0", "2">>

\* The tags of the base tiers
BaseTags == {"strong", "medium", "volume"}

\* The base tier of a pair of ratios, in ten-thousandths
BaseTier(v, o) ==
    IF v > 15000 /\ o > 15000 THEN "strong"
    ELSE IF v > 10000 /\ o > 10000 THEN "medium"
    ELSE IF v > 20000 THEN "volume"
    ELSE "none"

\* C27: rollover signal tiers.  _check_signal records at most one base
\* tier, the first that matches in the order Strong, Medium, Volume-only;
\* the signal is true iff a base tier matched or 0 < days to expiry <= 10
\* with v > 0.8 or o > 0.8; v = 0.9, o = 0.2 five days before expiry gives
\* a true signal with a near-expiry reason; the reason is never empty.
C27_SignalTiers ==
    trace.op = "signal" =>
        LET v == trace.v_ratio
            o == trace.o_ratio
            days == ThirdFridayOf(trace.today.year, trace.today.month)
                        - trace.today.day
            recorded == {i \in DOMAIN trace.reasons :
                            trace.reasons[i] \in BaseTags}
            near == 0 < days /\ days <= 10
        IN  /\ Cardinality(recorded) <= 1
            /\ \A i \in recorded : trace.reasons[i] = BaseTier(v, o)
            /\ BaseTier(v, o) # "none" => recorded # {}
            /\ trace.signal <=>
                  (BaseTier(v, o) # "none" \/ (near /\ (v > 8000 \/ o > 8000)))
            /\ trace.reasons # <<>>
            /\ (v = 9000 /\ o = 2000 /\ days = 5) =>
                  /\ trace.signal
                  /\ \E i \in DOMAIN trace.reasons : trace.reasons[i] = "near"

\* v = 0.9 and o = 0.2 five days before the 3rd Friday of March 2024
C27_Witness ==
    /\ trace.op = "signal"
    /\ trace.today = Date(2024, 3, 10)
    /\ trace.v_ratio = 9000
    /\ trace.o_ratio = 2000
    /\ trace.signal
    /\ trace.reasons = <<"near", "near_trigger">>

\* C28: ratio computation.  volume_ratio is next_volume / main_volume when
\* main_volume > 0 and 0 when it is 0, oi_ratio likewise; a main quote of
\* zeros gives ratios 0 and no base tier.
C28_RatioIsQuotient ==
    trace.op = "signal" =>
        /\ trace.main_vol > 0 =>
              trace.v_ratio * trace.main_vol = trace.next_vol * 10000
        /\ trace.main_vol = 0 => trace.v_ratio = 0
        /\ trace.main_oi > 0 =>
              trace.o_ratio * trace.main_oi = trace.next_oi * 10000
        /\ trace.main_oi = 0 => trace.o_ratio = 0
        /\ (trace.main_vol = 0 /\ trace.main_oi = 0) =>
              \A i \in DOMAIN trace.reasons : trace.reasons[i] \notin BaseTags

-----------------------------------------------------------------------------
(* The rollover module: quotes, and check_and_save_rollover *)

\* Days explored after StartDate by the rollover job
MaxRolloverDays == 3

\* What a source can report for a contract
Quote(v, oi) == [volume |-> v, open_interest |-> oi]

Zeros == Quote(0, 0)

\* The order of `for ctype in ("IC", "IM")`
ContractOrder == <<(<<"I", "C">>), (<<"I", "M">>)>>

\* The four codes requested on a date, and the two main ones
CodesOn(today) ==
    UNION {{contract_codes(ct, today).main, contract_codes(ct, today).next} :
              ct \in ContractTypes}

MainCodesOn(today) == {contract_codes(ct, today).main : ct \in ContractTypes}

\* How a call of the primary source ends: akshare cannot be imported,
\* futures_quote() raises, or returns nothing, or a frame without a code
\* column, or a frame with rows for some of the codes
PrimaryOutcomes(today) ==
    {[kind |-> k, rows |-> <<>>] :
        k \in {"import_error", "error", "empty", "no_code_col"}}
    \cup {[kind |-> "frame", rows |-> [c \in S |-> q]] :
             S \in {{}, MainCodesOn(today), CodesOn(today)},
             q \in {Zeros, Quote(10, 10)}}

\* How a call of the fallback source ends: the request raises, the status
\* is not 200, or a page is returned
FallbackOutcomes ==
    {[kind |-> k, page |-> Zeros] : k \in {"error", "status"}}
    \cup {[kind |-> "page", page |-> Quote(20, 15)]}

\* _fetch_via_akshare(code): None, or <<the dict>>
fetch_via_akshare(code, src) ==
    CASE src.kind = "import_error" -> None
      [] src.kind = "error" -> None
      [] src.kind = "empty" -> None
      [] src.kind = "no_code_col" -> None
      [] src.kind = "frame" ->
            IF code \notin DOMAIN src.rows THEN None ELSE <<src.rows[code]>>

\* _fetch_via_sina(code): None, or <<the dict>>
fetch_via_sina(code, src) ==
    CASE src.kind = "error" -> None
      [] src.kind = "status" -> None
      [] src.kind = "page" -> <<src.page>>

\* Variant: the fallback source is asked first
get_quote_FallbackFirst(code, primary, fallback) ==
    LET second == fetch_via_sina(code, fallback)
        first == fetch_via_akshare(code, primary)
        data == IF second # None THEN second ELSE first
    IN  [code |-> code, primary |-> first, consulted |-> TRUE,
         secondary |-> second, warned |-> data = None,
         data |-> IF data = None THEN Zeros ELSE data[1]]

\* _get_quote(code): the dict returned, with what each source gave,
\* whether the fallback was consulted and whether the warning was logged
get_quote(code, primary, fallback) ==
    LET first == fetch_via_akshare(code, primary)
        data == IF first = None THEN fetch_via_sina(code, fallback)
                ELSE first
    IN  [code |-> code, primary |-> first, consulted |-> first = None,
         secondary |-> IF first = None THEN data ELSE None,
         warned |-> data = None,
         data |-> IF data = None THEN Zeros ELSE data[1]]

\* The tuple appended to rows for one contract type
RolloverRow(ctype, today, primary, fallback) ==
    LET codes == contract_codes(ctype, today)
        main_q == get_quote(codes.main, primary, fallback).data
        next_q == get_quote(codes.next, primary, fallback).data
        sig == check_signal(main_q.volume, main_q.open_interest,
                            next_q.volume, next_q.open_interest, today)
    IN  [contract_type |-> ctype, check_date |-> today,
         main_contract |-> codes.main, main_volume |-> main_q.volume,
         main_open_interest |-> main_q.open_interest,
         next_contract |-> codes.next, next_volume |-> next_q.volume,
         next_open_interest |-> next_q.open_interest,
         volume_ratio |-> sig.v_ratio, oi_ratio |-> sig.o_ratio,
         rollover_signal |-> IF sig.signal THEN 1 ELSE 0,
         signal_reason |-> sig.reasons]

\* The calls of _get_quote made for one contract type, in order
QuoteCalls(ctype, today, primary, fallback) ==
    LET codes == contract_codes(ctype, today)
    IN  <<get_quote(codes.main, primary, fallback),
          get_quote(codes.next, primary, fallback)>>

\* A stored row: the columns of a tuple and the AUTO_INCREMENT id
Stored(id, row) == [id |-> id, row |-> row]

SameKey(a, b) ==
    a.contract_type = b.contract_type /\ a.check_date = b.check_date

NextId(table) ==
    IF table = {} THEN 1
    ELSE 1 + CHOOSE i \in {s.id : s \in table} : \A s \in table : s.id <= i

\* Variant: a plain INSERT
Upsert_Insert(table, row) == table \cup {Stored(NextId(table), row)}

\* _UPSERT for one tuple: uk_type_date (contract_type, check_date) decides
\* between the insert and the update of the other columns
Upsert(table, row) ==
    IF \E s \in table : SameKey(s.row, row)
    THEN {IF SameKey(s.row, row) THEN Stored(s.id, row) ELSE s : s \in table}
    ELSE table \cup {Stored(NextId(table), row)}

\* executemany(_UPSERT, rows) when it commits
RECURSIVE UpsertAll(_, _)
UpsertAll(table, rows) ==
    IF rows = <<>> THEN table
    ELSE UpsertAll(Upsert(table, Head(rows)), Tail(rows))

NoRollover ==
    [op |-> "none", runs |-> 0, today |-> StartDate, calls |-> <<>>,
     rows |-> <<>>, returned |-> 0, raised |-> FALSE, existed |-> FALSE,
     changed |-> FALSE]

InitRollover ==
    /\ futures_rollover = {}
    /\ MonitorIdle
    /\ calendar = NewCalendar
    /\ clock = 0
    /\ threads = <<>>
    /\ trace = NoRollover

\* A day passes
NextDate ==
    /\ clock \div PartsPerDay < MaxRolloverDays
    /\ clock' = clock + PartsPerDay
    /\ UNCHANGED <<futures_rollover, monitor, calendar, threads, trace>>

\* check_and_save_rollover(); db is how executemany ends
RunRollover ==
    /\ trace.runs < MaxRuns
    /\ LET today == Today(clock)
       IN  IF weekday(today) >= 5
           THEN /\ trace' = [NoRollover EXCEPT !.op = "run",
                                !.runs = trace.runs + 1, !.today = today]
                /\ UNCHANGED futures_rollover
           ELSE \E primary \in PrimaryOutcomes(today),
                   fallback \in FallbackOutcomes, db \in Endings :
                   \E rows \in {[i \in 1..2 |->
                                    RolloverRow(ContractOrder[i], today,
                                                primary, fallback)]},
                      calls \in {QuoteCalls(ContractOrder[1], today,
                                            primary, fallback)
                                 \o QuoteCalls(ContractOrder[2], today,
                                               primary, fallback)} :
                       /\ futures_rollover' =
                             IF db = "ok"
                             THEN UpsertAll(futures_rollover, rows)
                             ELSE futures_rollover
                       /\ trace' = [op |-> "run", runs |-> trace.runs + 1,
                                    today |-> today, calls |-> calls,
                                    rows |-> rows,
                                    returned |-> IF db = "ok" THEN Len(rows)
                                                 ELSE 0,
                                    raised |-> db = "raise",
                                    existed |->
                                        \E s \in futures_rollover :
                                            s.row.check_date = today,
                                    changed |-> futures_rollover'
                                                    # futures_rollover]
    /\ UNCHANGED <<monitor, calendar, clock, threads>>

NextRollover == NextDate \/ RunRollover

SpecRollover == InitRollover /\ [][NextRollover]_vars

-----------------------------------------------------------------------------
(* Properties of the rollover job (SpecRollover) *)

\* C29: quote degradation.  _get_quote always returns a (volume,
\* open_interest) pair; the fallback source is consulted only when the
\* primary one yields nothing; when both yield nothing the quote is (0, 0),
\* and a record is still produced for each contract type.
C29_QuoteDegradation ==
    (trace.op = "run" /\ weekday(trace.today) < 5) =>
        /\ Len(trace.calls) = 4
        /\ \A i \in DOMAIN trace.calls :
              LET call == trace.calls[i]
              IN  /\ DOMAIN call.data = {"volume", "open_interest"}
                  /\ call.data.volume \in Nat
                  /\ call.data.open_interest \in Nat
                  /\ call.consulted => call.primary = None
                  /\ call.primary # None => call.data = call.primary[1]
                  /\ (call.primary = None /\ call.secondary # None)
                        => call.data = call.secondary[1]
                  /\ (call.primary = None /\ call.secondary = None)
                        => call.data = [volume |-> 0, open_interest |-> 0]
        /\ Len(trace.rows) = 2
        /\ \A i \in 1..2 :
              /\ trace.rows[i].contract_type = ContractOrder[i]
              /\ trace.rows[i].main_contract = trace.calls[2 * i - 1].code
              /\ trace.rows[i].main_volume
                    = trace.calls[2 * i - 1].data.volume
              /\ trace.rows[i].main_open_interest
                    = trace.calls[2 * i - 1].data.open_interest
              /\ trace.rows[i].next_contract = trace.calls[2 * i].code
              /\ trace.rows[i].next_volume = trace.calls[2 * i].data.volume
              /\ trace.rows[i].next_open_interest
                    = trace.calls[2 * i].data.open_interest

\* Both sources yield nothing for every contract: the two records are
\* stored with zeros
C29_Witness ==
    /\ trace.op = "run"
    /\ Len(trace.calls) = 4
    /\ \A i \in DOMAIN trace.calls :
          /\ trace.calls[i].consulted
          /\ trace.calls[i].warned
          /\ trace.calls[i].data = Zeros
    /\ Cardinality(futures_rollover) = 2
    /\ \A s \in futures_rollover :
          s.row.main_volume = 0 /\ s.row.next_open_interest = 0

\* The stored rows of a contract type and date
RowsOf(table, ctype, dt) ==
    {s \in table : s.row.contract_type = ctype /\ s.row.check_date = dt}

\* C30: rollover record idempotence.  After a run of
\* check_and_save_rollover that commits on a weekday, the table holds
\* exactly one row per (contract_type, check_date) for IC and for IM with
\* the values of that run, and the rows of other dates are as before; a run
\* whose values are already stored leaves the table unchanged; a run on a
\* Saturday or Sunday produces no record and a run whose executemany raises
\* stores nothing; no key is ever stored twice.
C30_UpsertIdempotent ==
    [][trace'.runs = trace.runs + 1 =>
          LET today == trace'.today
          IN  /\ weekday(today) >= 5 =>
                    /\ trace'.rows = <<>>
                    /\ futures_rollover' = futures_rollover
                    /\ \A s \in futures_rollover' : s.row.check_date # today
              /\ (weekday(today) < 5 /\ ~trace'.raised) =>
                    /\ \A i \in 1..2 :
                          \E s \in futures_rollover' :
                              /\ s.row = trace'.rows[i]
                              /\ RowsOf(futures_rollover', ContractOrder[i],
                                        today) = {s}
                    /\ {s \in futures_rollover' : s.row.check_date # today}
                          = {s \in futures_rollover : s.row.check_date # today}
                    /\ (\A i \in 1..2 : \E s \in futures_rollover :
                            s.row = trace'.rows[i])
                          => futures_rollover' = futures_rollover
              /\ trace'.raised => futures_rollover' = futures_rollover
              /\ \A a, b \in futures_rollover' :
                    SameKey(a.row, b.row) => a = b]_vars

\* A second run on the same weekday with other quotes: still two rows,
\* carrying the values of the second run
C30_Witness ==
    /\ trace.op = "run"
    /\ trace.runs = 2
    /\ trace.existed
    /\ trace.changed
    /\ Cardinality(futures_rollover) = 2
    /\ \A i \in 1..2 : \E s \in futures_rollover : s.row = trace.rows[i]

-----------------------------------------------------------------------------
(* run_monitor with its collaborators: the data source, the alert sink and
   the state file; the RSS fetcher shares the StateManager *)

\* StateManager.set: self.state[key] = value (the dict after the call)
set_Replace(st, key, value) == Put(EmptyState, key, value)

set(st, key, value) == Put(st, key, value)

\* The snapshots of this scenario map the pct and the price column
MonitorRows ==
    [pct : {Dash} \cup {Cell(n, 10) : n \in {0, LimitPctTenths}},
     price : {Dash} \cup {Cell(n, 1) : n \in {100, 103}},
     prev_close : {Dash}, limit_up : {Dash}, limit_down : {Dash}]

MonitorSnapshots ==
    UNION {[cols : {{"pct", "price"}}, rows : [present -> MonitorRows]] :
           present \in SUBSET Codes}

\* What ak.fund_lof_spot_em() does: it raises, it returns None or an empty
\* frame (prepare_lof_df gives None), or it returns a frame
Sources ==
    {[kind |-> k, df |-> NoDf] : k \in {"raise", "none"}}
    \cup {[kind |-> "frame", df |-> s] : s \in MonitorSnapshots}

\* The statements of run_monitor on the outcome source of the data source,
\* for a monitor whose state store holds st and whose windows are hist, at
\* time now: how the call ends, the store and the windows after it, the
\* messages handed to send_text, the calls of _save, what each half did per
\* code, and the store between the two halves
Polled(source, st, hist, now) ==
    LET quiet == [ending |-> "ok", st |-> st, hist |-> hist, msgs |-> <<>>,
                  saves |-> 0, limit |-> NoInfo, speed |-> NoSpeedInfo,
                  mid |-> st]
    IN  IF source.kind = "raise"
        THEN [quiet EXCEPT !.ending = TryExcept("raise", "ok")]
        ELSE IF source.kind = "none" THEN quiet
        ELSE LET l == process_limit_alerts(source.df, GetOr(st, "limit",
                                                            EmptyMap))
                 st1 == IF l.set THEN set(st, "limit", l.limit) ELSE st
                 s == process_speed_alerts(source.df, now,
                                           GetOr(st1, "speed", EmptyMap), hist)
                 st2 == IF s.set THEN set(st1, "speed", s.speed) ELSE st1
             IN  [ending |-> "ok", st |-> st2, hist |-> s.hist,
                  msgs |-> l.msgs \o s.msgs,
                  saves |-> (IF l.set THEN 1 ELSE 0)
                            + (IF s.set THEN 1 ELSE 0),
                  limit |-> l.info, speed |-> s.info, mid |-> st1]

\* Variant: no try statement around the body
run_monitor_NoTry(source, sink, st, hist, now) ==
    [Polled(source, st, hist, now) EXCEPT
        !.ending = IF source.kind = "raise" THEN "raise" ELSE "ok"]

\* Variant: the statuses of a poll are recorded when its alerts are accepted
run_monitor_KeepOnRefusal(source, sink, st, hist, now) ==
    LET r == Polled(source, st, hist, now)
    IN  IF ~sink /\ r.msgs # <<>> THEN [r EXCEPT !.st = st, !.saves = 0]
        ELSE r

\* run_monitor; sink is what send_text returns for the messages of the call,
\* which no statement reads (lines 129, 134, 202)
run_monitor(source, sink, st, hist, now) == Polled(source, st, hist, now)

\* op: the latest call; source: what the data source did in it; refused:
\* send_text returned False for its messages; unsaved: _save failed in it;
\* ending: how it ended; lost: per code, the limit status and the speed
\* status whose alert the sink refused
NoLoss == [limit |-> "none", speed |-> "none"]

NoMonitor ==
    [op |-> "none", source |-> "none", refused |-> FALSE, unsaved |-> FALSE,
     ending |-> "ok", lost |-> [c \in Codes |-> NoLoss]]

\* The status a limit message announces
Announced(m) == IF m.kind = "open" THEN "NORMAL" ELSE m.status

\* What is lost for code after a poll with result r.  A limit alert is
\* superseded by the next limit alert about the code; a speed alert also by
\* a poll that computes another speed status
LostAfter(old, r, sink, code) ==
    LET ms == MsgsFor(r.msgs, code)
        ls == SelectSeq(ms, LAMBDA m : m.kind \in {"hit", "open"})
        ss == SelectSeq(ms, LAMBDA m : m.kind = "speed")
    IN  [limit |-> IF ls = <<>> THEN old.limit
                   ELSE IF sink THEN "none"
                   ELSE Announced(ls[Len(ls)]),
         speed |-> IF ss # <<>>
                   THEN (IF sink THEN "none" ELSE ss[Len(ss)].status)
                   ELSE IF /\ code \in DOMAIN r.speed
                           /\ r.speed[code].processed
                           /\ r.speed[code].cur # old.speed
                   THEN "none"
                   ELSE old.speed]

InitMonitor ==
    /\ futures_rollover = {}
    /\ pc = "idle"
    /\ df = NoDf
    /\ state = Constructed(EmptyState)
    /\ state_file = state
    /\ sent = <<>>
    /\ speed_history = NoHistory
    /\ now_ts = 0
    /\ last = NoInfo
    /\ streak = [c \in Codes |-> NoStreak]
    /\ samples = NoHistory
    /\ calendar = <<>>
    /\ clock = 0
    /\ threads = <<>>
    /\ trace = NoMonitor

\* The results send_text can give for the messages msgs, and _save for the
\* calls saves: a collaborator that is not called has no result
SinkResults(msgs) == IF msgs = <<>> THEN {TRUE} ELSE BOOLEAN

DiskResults(saves) == IF saves = 0 THEN {TRUE} ELSE BOOLEAN

\* One call of lof_monitor.run_monitor
RunMonitor ==
    /\ pc = "idle"
    /\ now_ts + TickSeconds <= MaxTicks * TickSeconds
    /\ now_ts' = now_ts + TickSeconds
    /\ \E source \in Sources, sink \in BOOLEAN :
          /\ \E r \in {run_monitor(source, sink, state, speed_history,
                                    now_ts')} :
                /\ sink \in SinkResults(r.msgs)
                /\ \E disk \in DiskResults(r.saves) :
                      /\ state' = r.st
                      /\ state_file' = IF disk /\ r.saves > 0 THEN r.st
                                       ELSE state_file
                      /\ trace' = [op |-> "poll", source |-> source.kind,
                                   refused |-> ~sink, unsaved |-> ~disk,
                                   ending |-> r.ending,
                                   lost |-> [c \in Codes |->
                                                LostAfter(trace.lost[c], r,
                                                          sink, c)]]
                /\ speed_history' = r.hist
                /\ sent' = r.msgs
                /\ last' = r.limit
          /\ df' = source.df
    /\ UNCHANGED <<futures_rollover, pc, streak, samples, calendar, clock,
                   threads>>

NextMonitor == RunMonitor

SpecMonitor == InitMonitor /\ [][NextMonitor]_vars


-----------------------------------------------------------------------------
(* Properties of run_monitor with failing collaborators (SpecMonitor) *)

\* The messages a poll at time now computes from the snapshot snap, the
\* store st and the windows hist
ComputedMsgs(snap, st, hist, now) ==
    process_limit_alerts(snap, GetOr(st, "limit", EmptyMap)).msgs
    \o process_speed_alerts(snap, now, GetOr(st, "speed", EmptyMap), hist).msgs

\* C31: run_monitor returns normally whatever its collaborators do: when the
\* data source raises or returns nothing it hands no message to the sink, and
\* when the source returns a frame it hands over exactly the messages
\* computed from that frame, whether or not the sink refuses them and whether
\* or not the state file can be written.
C31_NeverRaises ==
    [][trace'.op = "poll"
          => /\ trace'.ending = "ok"
             /\ sent' = IF trace'.source = "frame"
                        THEN ComputedMsgs(df', state, speed_history, now_ts')
                        ELSE <<>>]_vars

\* The data source raised in a poll that returned normally, after a poll
\* whose alert the sink refused and a save that failed
C31_Witness ==
    /\ trace.op = "poll"
    /\ trace.source = "raise"
    /\ trace.ending = "ok"
    /\ sent = <<>>
    /\ state_file # state
    /\ \E c \in Codes : trace.lost[c] # NoLoss


-----------------------------------------------------------------------------
(* The rollover entry point and a failing persistence layer (SpecRollover) *)

\* C32: check_and_save_rollover returns a count and never raises, whatever
\* its collaborators do, a failing executemany included, and every record it
\* computed for a contract type is in the table afterwards.
C32_RolloverNeverRaises ==
    trace.op = "run"
        => /\ ~trace.raised
           /\ \A i \in DOMAIN trace.rows :
                 \E s \in futures_rollover : s.row = trace.rows[i]


-----------------------------------------------------------------------------
(* The watch-list file: parse_codes_from_file *)

\* Lines of the files explored
MaxLines == 3

\* str.strip() and str.split() without arguments cut at whitespace
Whitespace == {" ", "\t", "\n"}

RECURSIVE lstrip(_)
lstrip(s) ==
    IF s # <<>> /\ Head(s) \in Whitespace THEN lstrip(Tail(s)) ELSE s

RECURSIVE rstrip(_)
rstrip(s) ==
    IF s # <<>> /\ s[Len(s)] \in Whitespace
    THEN rstrip(SubSeq(s, 1, Len(s) - 1))
    ELSE s

strip(s) == rstrip(lstrip(s))

\* line.split()[0]: the characters up to the first whitespace after the
\* leading whitespace
RECURSIVE UpToSpace(_)
UpToSpace(s) ==
    IF s = <<>> \/ Head(s) \in Whitespace THEN <<>>
    ELSE <<Head(s)>> \o UpToSpace(Tail(s))

split_first(line) == UpToSpace(lstrip(line))

Signs == {"+", "-"}

\* str.zfill of Python: the zeros go after a leading sign
str_zfill(text, width) ==
    IF text # <<>> /\ Head(text) \in Signs
    THEN IF Len(text) >= width THEN text
         ELSE <<Head(text)>> \o zfill(Tail(text), width - 1)
    ELSE zfill(text, width)

\* The loop over the lines of the file (lines 151-157)
RECURSIVE read_codes(_)
read_codes(lines) ==
    IF lines = <<>> THEN <<>>
    ELSE LET line == strip(Head(lines))
             code == strip(split_first(line))
         IN  (IF line = <<>> \/ Head(line) = "#" \/ code = <<>> THEN <<>>
              ELSE <<str_zfill(code, 6)>>)
             \o read_codes(Tail(lines))

\* Variant: the latest occurrence of a code is the one kept
RECURSIVE unique_codes_KeepLast(_, _)
unique_codes_KeepLast(codes, seen) ==
    IF codes = <<>> THEN <<>>
    ELSE LET rest == Tail(codes)
         IN  (IF \E i \in DOMAIN rest : rest[i] = Head(codes) THEN <<>>
              ELSE <<Head(codes)>>)
             \o unique_codes_KeepLast(rest, seen)

\* The loop that removes duplicates (lines 162-167)
RECURSIVE unique_codes(_, _)
unique_codes(codes, seen) ==
    IF codes = <<>> THEN <<>>
    ELSE IF Head(codes) \notin seen
    THEN <<Head(codes)>> \o unique_codes(Tail(codes), seen \cup {Head(codes)})
    ELSE unique_codes(Tail(codes), seen)

\* A file: whether os.path.exists(file_path), and its lines
File(exists, lines) == [exists |-> exists, lines |-> lines]

parse_codes_from_file(file) ==
    IF ~file.exists THEN <<>> ELSE unique_codes(read_codes(file.lines), {})

\* Lines of a watch-list file: blank lines, comments, codes with and without
\* their leading zeros, several tokens, a sign, more than 6 characters
FileLines ==
    {<<"\n">>, <<" ", "\n">>, <<"#", "1", "\n">>, <<" ", "#", "\n">>,
     <<"1", "\n">>, <<"0", "0", "0", "0", "0", "1", "\n">>,
     <<" ", "1", "\t", "2", "\n">>, <<"2", " ", "#", "\n">>, <<"-", "1">>,
     <<"1", "2", "3", "4", "5", "6", "7", "\n">>}

Files ==
    {File(FALSE, <<>>)}
    \cup {File(TRUE, lines) :
             lines \in UNION {[1..n -> FileLines] : n \in 0..MaxLines}}

\* The file written from a list of codes, one code per line
Written(codes) ==
    File(TRUE, [i \in DOMAIN codes |-> codes[i] \o <<"\n">>])

NoParse ==
    [op |-> "none", file |-> File(FALSE, <<>>), codes |-> <<>>,
     again |-> <<>>]

InitParse ==
    /\ futures_rollover = {}
    /\ MonitorIdle
    /\ calendar = NewCalendar
    /\ clock = 0
    /\ threads = <<>>
    /\ trace = NoParse

\* A call of parse_codes_from_file(file_path)
ParseCodes ==
    /\ trace.op = "none"
    /\ \E file \in Files :
          trace' = [NoParse EXCEPT !.op = "parsed", !.file = file,
                                   !.codes = parse_codes_from_file(file)]
    /\ UNCHANGED <<futures_rollover, monitor, calendar, clock, threads>>

\* The list returned is written to a file, which is parsed
ParseAgain ==
    /\ trace.op = "parsed"
    /\ trace' = [trace EXCEPT
                    !.op = "parsed again",
                    !.again = parse_codes_from_file(Written(trace.codes))]
    /\ UNCHANGED <<futures_rollover, monitor, calendar, clock, threads>>

NextParse == ParseCodes \/ ParseAgain

SpecParse == InitParse /\ [][NextParse]_vars

\* The characters of a line that are not whitespace
Inked(line) == {i \in DOMAIN line : line[i] \notin Whitespace}

FirstInk(line) == CHOOSE i \in Inked(line) : \A j \in Inked(line) : i <= j

\* A line that holds a code: not blank, and not a comment
CodeLine(line) == Inked(line) # {} /\ line[FirstInk(line)] # "#"

\* The first whitespace-delimited token of a line that is not blank
TokenOf(line) ==
    LET a == FirstInk(line)
        ends == {j \in a..Len(line) : \A i \in a..j : i \in Inked(line)}
        b == CHOOSE j \in ends : \A k \in ends : k <= j
    IN  SubSeq(line, a, b)

ZerosOf(n) == [i \in 1..n |-> "0"]

\* tok padded with zeros to 6 characters: the zeros are at the front, or
\* behind the sign a token starts with
PaddedTo6(tok, out) ==
    LET n == IF Len(tok) >= 6 THEN 0 ELSE 6 - Len(tok)
    IN  \/ out = ZerosOf(n) \o tok
        \/ /\ Head(tok) \in Signs
           /\ out = <<Head(tok)>> \o ZerosOf(n) \o Tail(tok)

\* The first line of the file whose padded token is code
FirstLineOf(file, code) ==
    CHOOSE i \in DOMAIN file.lines :
        /\ CodeLine(file.lines[i])
        /\ PaddedTo6(TokenOf(file.lines[i]), code)
        /\ \A j \in 1..(i - 1) :
              ~(/\ CodeLine(file.lines[j])
                /\ PaddedTo6(TokenOf(file.lines[j]), code))

\* C33: parse_codes_from_file returns the first whitespace-delimited token of
\* each line that is neither blank nor a comment, zero-padded to 6
\* characters, without duplicates and in the order of first appearance; a
\* missing file gives the empty list; and parsing the list it returned gives
\* the same list.
C33_WatchListParsing ==
    LET file == trace.file
        codes == trace.codes
    IN  /\ trace.op # "none" =>
              /\ ~file.exists => codes = <<>>
              /\ \A i \in DOMAIN file.lines :
                    CodeLine(file.lines[i]) =>
                        \E k \in DOMAIN codes :
                            PaddedTo6(TokenOf(file.lines[i]), codes[k])
              /\ \A k \in DOMAIN codes :
                    \E i \in DOMAIN file.lines :
                        /\ CodeLine(file.lines[i])
                        /\ PaddedTo6(TokenOf(file.lines[i]), codes[k])
              /\ \A j, k \in DOMAIN codes : j # k => codes[j] # codes[k]
              /\ \A j, k \in DOMAIN codes :
                    j < k => FirstLineOf(file, codes[j])
                                 < FirstLineOf(file, codes[k])
        /\ trace.op = "parsed again" => trace.again = codes

\* A file with a comment, a code without its leading zeros and the same code
\* with them was parsed to that one code and one more, and parsed again
C33_Witness ==
    /\ trace.op = "parsed again"
    /\ Len(trace.file.lines) = 3
    /\ \E i, j \in DOMAIN trace.file.lines :
          /\ i < j
          /\ trace.file.lines[i] = <<"1", "\n">>
          /\ trace.file.lines[j] = <<"0", "0", "0", "0", "0", "1", "\n">>
    /\ \E i \in DOMAIN trace.file.lines :
          trace.file.lines[i] = <<"2", " ", "#", "\n">>
    /\ Len(trace.codes) = 2
    /\ trace.again = trace.codes


-----------------------------------------------------------------------------
(* The window and the prices that enter it (SpecSpeed) *)

\* The snapshot holds a price above zero for code
ValidPrice(snap, code) ==
    /\ code \in DOMAIN snap.rows
    /\ "price" \in snap.cols
    /\ GT(series_to_float(snap.rows[code]["price"]), Flt(0, 1))

-----------------------------------------------------------------------------
(* Alerts the sink refuses (SpecMonitor) *)

\* The messages of msgs about code that the limit half sends
LimitMsgsFor(msgs, code) ==
    SelectSeq(msgs, LAMBDA m : m.code = code /\ m.kind \in {"hit", "open"})

SpeedMsgsFor(msgs, code) ==
    SelectSeq(msgs, LAMBDA m : m.code = code /\ m.kind = "speed")

\* C35: alerts are not retried.  In a poll whose alerts the sink refuses,
\* the status each alert announces is the status recorded for its code; and
\* in a later poll that computes, for a code, the status whose alert was
\* refused, no alert of that kind is sent about the code.
C35_FireAndForget ==
    [][trace'.op = "poll" =>
          \A c \in Codes :
              /\ trace'.refused =>
                    /\ \A i \in DOMAIN LimitMsgsFor(sent', c) :
                          i = Len(LimitMsgsFor(sent', c)) =>
                              GetOr(state'.limit, c, "NORMAL")
                                  = Announced(LimitMsgsFor(sent', c)[i])
                    /\ \A i \in DOMAIN SpeedMsgsFor(sent', c) :
                          GetOr(state'.speed, c, "NORMAL")
                              = SpeedMsgsFor(sent', c)[i].status
              /\ (/\ trace.lost[c].limit # "none"
                  /\ c \in DOMAIN last'
                  /\ last'[c].processed
                  /\ last'[c].cur = trace.lost[c].limit)
                     => LimitMsgsFor(sent', c) = <<>>
              /\ (/\ trace.lost[c].speed # "none"
                  /\ ValidPrice(df', c)
                  /\ GetOr(state'.speed, c, "NORMAL") = trace.lost[c].speed)
                     => SpeedMsgsFor(sent', c) = <<>>]_vars

\* The sink refused the alert of a LIMIT_UP transition two polls ago or
\* earlier, and the latest poll computed LIMIT_UP again and sent nothing
\* about the code
C35_Witness ==
    /\ trace.op = "poll"
    /\ \E c \in Codes :
          /\ trace.lost[c].limit = "LIMIT_UP"
          /\ c \in DOMAIN last
          /\ last[c].processed
          /\ last[c].prev = "LIMIT_UP"
          /\ last[c].cur = "LIMIT_UP"
          /\ LimitMsgsFor(sent, c) = <<>>


-----------------------------------------------------------------------------
(* One StateManager, its keys and their users in sequence: the LOF monitor
   and the RSS fetcher of main() *)

\* How the handling of an article ends (the "status" of its history entry)
RssEntries == {"analyzed", "failed", "no_content"}

\* op: the latest call; keys: the keys it passed to set or ensure_key; mid:
\* the store between the two halves of a poll
NoShared == [op |-> "none", keys |-> {}, mid |-> EmptyState]

\* After StateManager(state_file): the file was missing, or held the maps of
\* an earlier process
InitShared ==
    /\ futures_rollover = {}
    /\ pc = "loaded"
    /\ df = NoDf
    /\ state \in {EmptyState} \cup
                 {[limit |-> m, speed |-> EmptyMap] :
                     m \in StoredMaps(Statuses)}
    /\ state_file = state
    /\ sent = <<>>
    /\ speed_history = NoHistory
    /\ now_ts = 0
    /\ last = NoInfo
    /\ streak = [c \in Codes |-> NoStreak]
    /\ samples = NoHistory
    /\ calendar = <<>>
    /\ clock = 0
    /\ threads = <<>>
    /\ trace = NoShared

\* LOFRealtimeMonitor.__init__: ensure_key("limit", {}), ensure_key("speed", {})
BuildMonitor ==
    /\ pc = "loaded"
    /\ pc' = "idle"
    /\ state' = Constructed(state)
    /\ state_file' = state'
    /\ trace' = [op |-> "ensure_key", keys |-> {"limit", "speed"},
                 mid |-> EmptyState]
    /\ UNCHANGED <<futures_rollover, df, sent, speed_history, now_ts, last,
                   streak, samples, calendar, clock, threads>>

\* RSSFetcher.__init__: self.state_manager.ensure_key("rss_history", {})
BuildRss ==
    /\ state' = ensure_key(state, "rss_history", EmptyMap)
    /\ state_file' = state'
    /\ trace' = [op |-> "ensure_key", keys |-> {"rss_history"},
                 mid |-> EmptyState]
    /\ UNCHANGED <<futures_rollover, pc, df, sent, speed_history, now_ts,
                   last, streak, samples, calendar, clock, threads>>

\* RSSFetcher.check_and_analyze records one article:
\* history[article_id] = {...}; self.state_manager.set("rss_history", history)
RecordArticle ==
    /\ "rss_history" \in DOMAIN state
    /\ \E entry \in RssEntries :
          state' = set(state, "rss_history",
                       Put(state.rss_history, "a1", entry))
    /\ state_file' = state'
    /\ trace' = [op |-> "set", keys |-> {"rss_history"}, mid |-> EmptyState]
    /\ UNCHANGED <<futures_rollover, pc, df, sent, speed_history, now_ts,
                   last, streak, samples, calendar, clock, threads>>

\* One call of lof_monitor.run_monitor; the sink accepts and the file is
\* written
RunShared ==
    /\ pc = "idle"
    /\ now_ts + TickSeconds <= MaxTicks * TickSeconds
    /\ now_ts' = now_ts + TickSeconds
    /\ \E source \in Sources :
          \E r \in {run_monitor(source, TRUE, state, speed_history,
                                now_ts')} :
             /\ state' = r.st
             /\ state_file' = r.st
             /\ speed_history' = r.hist
             /\ sent' = r.msgs
             /\ last' = r.limit
             /\ trace' = [op |-> "poll", keys |-> {}, mid |-> r.mid]
    /\ UNCHANGED <<futures_rollover, pc, df, streak, samples, calendar,
                   clock, threads>>

NextShared == BuildMonitor \/ BuildRss \/ RecordArticle \/ RunShared

SpecShared == InitShared /\ [][NextShared]_vars

\* The entries of the store b that differ from those of the store a
Touched(a, b) ==
    {k \in DOMAIN a \cup DOMAIN b :
        ~(k \in DOMAIN a /\ k \in DOMAIN b /\ a[k] = b[k])}

\* C36: key isolation.  A call of set or ensure_key changes no entry but
\* that of its key; in a poll the limit half changes no entry but "limit"
\* and the speed half none but "speed"; no call of another user changes
\* either map; and no call removes a code from a map.
C36_KeyIsolation ==
    [][/\ trace'.op \in {"set", "ensure_key"} =>
             Touched(state, state') \subseteq trace'.keys
       /\ trace'.op = "poll" =>
             /\ Touched(state, trace'.mid) \subseteq {"limit"}
             /\ Touched(trace'.mid, state') \subseteq {"speed"}
       /\ \A k \in {"limit", "speed"} :
             k \in DOMAIN state =>
                 /\ k \in DOMAIN state'
                 /\ DOMAIN state[k] \subseteq DOMAIN state'[k]]_vars

\* After polls of both halves and a recorded article the store holds a limit
\* status, a speed status and the article, and the latest poll changed both
\* maps
C36_Witness ==
    /\ trace.op = "poll"
    /\ "rss_history" \in DOMAIN state
    /\ "a1" \in DOMAIN state.rss_history
    /\ \E c \in Codes :
          /\ GetOr(state.limit, c, "NORMAL") = "LIMIT_UP"
          /\ GetOr(state.speed, c, "NORMAL") = "FAST_UP"
          /\ GetOr(trace.mid.speed, c, "NORMAL") # "FAST_UP"
          /\ MsgsFor(sent, c) # <<>>


-----------------------------------------------------------------------------
(* The near-expiry window and the main contract (SpecFutures) *)

\* The tags of the escalation near the expiry
NearTags == {"near", "near_trigger"}

TagsOf(reasons) == {reasons[i] : i \in DOMAIN reasons}

\* C37: on every date the window near the expiry is open (the days left to
\* the current month's 3rd Friday are 1..10) exactly when the expiry of the
\* main contract of that date is 1..10 days ahead; on the expiry day and
\* after it the escalation does not apply.
C37_NearExpiryWindow ==
    trace.op = "day" =>
        LET today == trace.today
            this == <<today.year, today.month>>
            exp == ThirdFridayOf(today.year, today.month)
            ym == IF trace.main = CodeOf(trace.ctype, this) THEN this
                  ELSE MonthAfter(this)
            expiry == Date(ym[1], ym[2], ThirdFridayOf(ym[1], ym[2]))
            ahead == toordinal(expiry) - toordinal(today)
            tags == TagsOf(trace.reasons)
        IN  /\ trace.main = CodeOf(trace.ctype, ym)
            /\ ("near" \in tags) = (ahead \in 1..10)
            /\ "near_trigger" \in tags => "near" \in tags
            /\ today.day >= exp => tags \cap NearTags = {}

\* The day before an expiry: the quotes alone give no signal, the window is
\* open and the escalation triggers
C37_Witness ==
    /\ trace.op = "day"
    /\ trace.today = Date(2024, 3, 14)
    /\ trace.main = <<"I", "C", "2", "4", "0", "3">>
    /\ trace.v_ratio = 9000
    /\ trace.reasons = <<"near", "near_trigger">>
    /\ trace.signal


-----------------------------------------------------------------------------
(* Recovery of the A-share calendar after a failed refresh (SpecCalendar) *)

\* The step is a call that attempted the fetch, and the fetch ended as kind
Fetched(kind) == Queried /\ trace'.fetched /\ trace'.outcome = kind

\* C38: recovery after a failed refresh.  A fetch that fails leaves
\* last_update as it was; a cache that is stale stays stale until a fetch
\* succeeds, and every weekday call on a stale cache attempts the fetch; the
\* call whose fetch succeeds is answered from the day-set it loaded, and
\* while the cache is not stale a weekday call attempts no fetch and is
\* answered from that day-set; a fetch that raises leaves no day-set, a
\* fetch that returns nothing leaves the day-set held before.
C38_CalendarRecovery ==
    [][/\ (Fetched("raise") \/ Fetched("empty")) =>
             calendar'.last_update = calendar.last_update
       /\ (Stale(calendar, clock) /\ ~Fetched("days")) =>
             Stale(calendar', clock')
       /\ (Queried /\ weekday(trace'.date) < 5 /\ Stale(calendar, clock)) =>
             trace'.fetched
       /\ Fetched("days") =>
             /\ calendar'.last_update = <<clock>>
             /\ ~Stale(calendar', clock')
             /\ trace'.result <=> trace'.date \in calendar'.a_share_calendar[1]
       /\ (Queried /\ weekday(trace'.date) < 5 /\ ~Stale(calendar, clock)) =>
             /\ ~trace'.fetched
             /\ calendar' = calendar
             /\ trace'.result <=> trace'.date \in calendar.a_share_calendar[1]
       /\ Fetched("raise") => calendar'.a_share_calendar = None
       /\ Fetched("empty") =>
             calendar'.a_share_calendar = calendar.a_share_calendar]_vars

\* A day-set was loaded, became stale after 7 days, and the fetch of the
\* next weekday call raised: no day-set is held and last_update is still
\* the time of the load
C38_Witness ==
    /\ trace.op = "query"
    /\ trace.fetched
    /\ trace.outcome = "raise"
    /\ trace.result
    /\ calendar.a_share_calendar = None
    /\ calendar.last_update # None
    /\ clock - calendar.last_update[1] >= update_interval_days * PartsPerDay


-----------------------------------------------------------------------------
(* The day-set across the invocations of the gated jobs (SpecGate) *)

\* C39: the day-set is reused.  When an invocation of a trading-day-only
\* job through a scheduler wrapper has loaded the day-set, the next such
\* invocation through the same wrapper, fewer than 7 days later, performs
\* no fetch.
C39_CacheReused ==
    [][(/\ trace.op \in {"job", "wrap"}
        /\ trace.only
        /\ trace.fetched
        /\ trace.outcome = "days"
        /\ clock' = clock
        /\ trace'.op = trace.op
        /\ trace'.only
        /\ toordinal(trace'.date) - toordinal(trace.date)
               < update_interval_days)
          => ~trace'.fetched]_vars

====
